---- MODULE Spec2Model ----
(***************************************************************************)
(* Model of the CAN transport (lib/can/CANConnector.cpp): one caller       *)
(* thread driving connect / disconnect / sendMessage / setInterfaceName,   *)
(* the background reader thread, and the kernel side of the CAN socket.    *)
(* Every statement of the source that another thread can observe is one    *)
(* step; system calls take their outcome from the environment.             *)
(***************************************************************************)
EXTENDS Naturals, Integers, Sequences, FiniteSets, TLC

\* ---------------------------------------------------------------- bounds
MaxOps == 3          \* API calls issued by the caller thread
MaxFrames == 2       \* frames the bus delivers to the socket
MaxSends == 1        \* sendMessage() calls issued by the second caller thread
MaxConcOps == 2      \* API calls of the first thread while a second one sends
MaxRtOps == 2        \* API calls of a round-trip run (connect, then a send)
MaxRouted == 1       \* frames handed directly to the listener's routing step
MaxListenerOps == 2  \* start()/stop() calls on the listener
MaxListenerFrames == 1 \* frames the bus delivers to the listener's socket
MaxStatusCalls == 2  \* GetStatus() calls served by the bus event loop
MaxLifecycleOps == 3 \* start()/stop() calls of a lifecycle run without CAN traffic
MaxInstanceCalls == 2 \* instance() calls of each thread
MaxLinkOps == 3      \* start()/stop() calls on the server link
MaxServerFlips == 2  \* times the server starts or stops accepting
MaxFailed == 2       \* failed connect attempts that are counted (more may happen)
MaxLinkFrames == 1   \* frames handed to the link's frame observer
MaxInbound == 2      \* messages the server sends
MaxStopOps == 3      \* connect()/disconnect() calls of a run under traffic
MaxRestartOps == 3   \* start()/stop() calls when start() may be repeated

\* ------------------------------------------------------ program constants
CAN_MAX_DLEN == 8    \* <linux/can.h>, used at CANConnector.cpp:86
\* the link's fixed retry delay, in seconds
RetryDelay == 5
Fds == {3, 4, 5}     \* descriptors socket() can hand out (0..2 are stdio)

\* ------------------------------------------------------------ input sets
Interfaces == {"vcan0", "vcan1", "invalid_interface"}
ExistingInterfaces == {"vcan0", "vcan1"}
CanIds == {291, 1110}     \* 0x123, 0x456
Bytes(n) == [i \in 1..n |-> i]
Payloads == {Bytes(0), Bytes(4), Bytes(8), Bytes(9), Bytes(10)}
StackGarbage == {0, 204}  \* what the unwritten tail of a stack can_frame may hold

\* struct can_frame: can_id, can_dlc, data[8]
PadTo8(data, g) == [i \in 1..CAN_MAX_DLEN |-> IF i <= Len(data) THEN data[i] ELSE g]
MakeFrame(canId, data, g) ==
    [data |-> PadTo8(data, g), can_id |-> canId, can_dlc |-> Len(data) % 256]
InFrames == {MakeFrame(256, <<1, 2>>, 0),
             MakeFrame(1110, <<170, 187, 204, 221>>, 0)}
NoFrame == [data |-> PadTo8(<<>>, 0), can_id |-> 0, can_dlc |-> 0]

\* (variant: the whole data array is handed on, whatever can_dlc says)
DecodeData_whole(f) == f.data
\* std::vector<uint8_t> data(frame.data, frame.data + frame.can_dlc)
DecodeData(f) == [i \in 1..f.can_dlc |-> f.data[i]]

VARIABLES
    m_interfaceName,   \* std::string
    m_socket,          \* int, -1 when closed
    m_connected,       \* std::atomic<bool>
    m_shouldStop,      \* std::atomic<bool>
    m_readThread,      \* "null" | "joinable" | "joined"
    m_socketMutex,     \* "free" or the thread holding it
    pc,                \* position of each thread
    stack,             \* return labels of the caller thread's nested calls
    op, args, ret,     \* the caller's current (or last) API call
    pre,               \* transport state when that call was entered
    log,               \* effects of that call, in order
    opsDone, prevOp,
    openFds,           \* descriptors open in the kernel
    boundFds,          \* descriptors bound to a CAN interface
    rxq,               \* frames queued on the socket by the bus
    arrivals,          \* frames delivered by the bus so far
    lastTx,            \* frame the current call wrote to the bus, if any
    frame,             \* reader's local can_frame
    readSeq, cbSeq,    \* frames read / frames handed to the frame callback
    readerError,       \* the reader left its loop on a select/read error
    readerErrorCbs,    \* error callbacks fired by the reader thread since its spawn
    aborted,           \* std::terminate was called
    stopped,           \* disconnect() has returned and no connect() began since
    lateCb,            \* callbacks fired while stopped: <<kind, firing call or thread>>
    sArgs, sLog, sRet, \* the second caller thread's sendMessage() call
    sendsDone,
    carried,           \* (id, payload) of the sends the bus has carried to the reader
    m_dbusConnection,  \* CANListener: "null" | "open"
    m_dbusObject,      \* CANListener: "null" | "created" | "registered"
    m_dbusThread,      \* CANListener: "null" | "joinable" | "joined"
    dbusLoop,          \* the bus event loop: "none" | "running" | "leaving" | "exited"
    busName,           \* the service name is owned on the bus
    signals,           \* CANMessageReceived signals published: [canId, data]
    emitted,           \* per handled frame: "emitted" | "failed" | "skipped"
    routed,            \* frames the routing step has seen: [canId, data, category]
    dbusCall, dArgs,   \* bus method being served by the event loop, its arguments
    reply,             \* the reply sent for it
    statusLog,         \* GetStatus() replies so far, each with isConnected() as read
    instance,          \* the static unique_ptr of instance(): 0 or an object
    constructed,       \* CANListener objects constructed so far (objects 1..n)
    destroyed,         \* the objects deleted again
    ipc,               \* where each thread is inside instance()
    inew,              \* the object a thread has just constructed
    returned,          \* the results of instance(): [thread, ptr]
    linkStarted,       \* the server link has been started and not stopped
    linkState,         \* "Disconnected" | "Connecting" | "Connected"
    serverUp,          \* the server is accepting connections
    sleepLeft,         \* seconds until the retry loop's next attempt
    upFor,             \* seconds the server has been accepting, link not Connected
    failed,            \* connect attempts that have failed since start()
    toServer,          \* the JSON messages written to the server, in order
    inbox,             \* messages from the server not read yet
    frameLog,          \* frames the observer has seen, with the link state then
    canSends,          \* CanTransport.send(id, payload) calls made by the read loop
    readLog,           \* what each read iteration classified its message as
    linkOps, flips     \* link start()/stop() calls made; server changes so far

vars == <<m_interfaceName, m_socket, m_connected, m_shouldStop, m_readThread,
          m_socketMutex, pc, stack, op, args, ret, pre, log, opsDone, prevOp,
          openFds, boundFds, rxq, arrivals, lastTx, frame, readSeq, cbSeq, readerError,
          readerErrorCbs,
          aborted, stopped, lateCb, sArgs, sLog, sRet, sendsDone, carried,
          m_dbusConnection, m_dbusObject, m_dbusThread, dbusLoop, busName, signals,
          emitted, routed, dbusCall, dArgs, reply, statusLog,
          instance, constructed, destroyed, ipc, inew, returned,
          linkStarted, linkState, serverUp, sleepLeft, upFor, failed, toServer,
          inbox, frameLog, canSends, readLog, linkOps, flips>>

senderVars == <<sArgs, sLog, sRet, sendsDone>>
peerVars == <<carried>>
instanceVars == <<instance, constructed, destroyed, ipc, inew, returned>>
linkVars == <<linkStarted, linkState, serverUp, sleepLeft, upFor, failed, toServer,
              inbox, frameLog, canSends, readLog, linkOps, flips>>
appVars == <<instanceVars, linkVars>>
busVars == <<m_dbusConnection, m_dbusObject, m_dbusThread, dbusLoop, busName>>
handlerVars == <<signals, emitted, routed>>
methodVars == <<dbusCall, dArgs, reply, statusLog>>
listenerVars == <<busVars, handlerVars, methodVars>>
extVars == <<senderVars, peerVars, appVars, listenerVars>>
transportVars == <<m_interfaceName, m_socket, m_connected, m_shouldStop, m_readThread>>
kernelVars == <<openFds, boundFds, rxq, arrivals, lastTx>>
readerVars == <<frame, readSeq, cbSeq, readerError, readerErrorCbs>>
callVars == <<op, args, pre, opsDone, prevOp>>

\* the threads that call CANListener::instance()
InstanceThreads == {"t1", "t2", "t3"}

NoArgs == [data |-> <<>>, canId |-> 0, name |-> ""]
Snapshot == [openFds |-> openFds, connected |-> m_connected,
             socket |-> m_socket, interfaceName |-> m_interfaceName,
             readThread |-> m_readThread, readerPc |-> pc["reader"]]

\* CANConnector::CANConnector
Init ==
    /\ m_interfaceName \in Interfaces
    /\ m_socket = -1
    /\ m_connected = FALSE
    /\ m_shouldStop = FALSE
    /\ m_readThread = "null"
    /\ m_socketMutex = "free"
    /\ pc = [t \in {"reader", "main", "sender"} |-> IF t = "reader" THEN "none" ELSE "idle"]
    /\ stack = <<>>
    /\ op = "none" /\ args = NoArgs /\ ret = "none"
    /\ pre = [openFds |-> {}, connected |-> FALSE, socket |-> -1,
              interfaceName |-> m_interfaceName, readThread |-> "null", readerPc |-> "none"]
    /\ log = <<>>
    /\ opsDone = 0 /\ prevOp = "none"
    /\ openFds = {}
    /\ boundFds = {}
    /\ rxq = <<>>
    /\ arrivals = 0
    /\ lastTx = NoFrame
    /\ frame = NoFrame
    /\ readSeq = <<>> /\ cbSeq = <<>>
    /\ readerError = FALSE
    /\ readerErrorCbs = 0
    /\ aborted = FALSE
    /\ stopped = FALSE
    /\ lateCb = {}
    /\ sArgs = NoArgs /\ sLog = <<>> /\ sRet = "none"
    /\ sendsDone = 0
    /\ carried = <<>>
    /\ m_dbusConnection = "null" /\ m_dbusObject = "null" /\ m_dbusThread = "null"
    /\ dbusLoop = "none" /\ busName = FALSE
    /\ signals = <<>> /\ emitted = <<>> /\ routed = <<>>
    /\ dbusCall = "none" /\ dArgs = NoArgs /\ reply = "none"
    /\ statusLog = <<>>
    /\ instance = 0 /\ constructed = 0 /\ destroyed = {}
    /\ ipc = [t \in InstanceThreads |-> "idle"]
    /\ inew = [t \in InstanceThreads |-> 0]
    /\ returned = <<>>
    /\ linkStarted = FALSE /\ linkState = "Disconnected"
    /\ serverUp = FALSE
    /\ sleepLeft = 0 /\ upFor = 0 /\ failed = 0
    /\ toServer = <<>> /\ inbox = <<>> /\ frameLog = <<>>
    /\ canSends = <<>> /\ readLog = <<>>
    /\ linkOps = 0 /\ flips = 0

\* ----------------------------------------------------------------- helpers
Goto(t, l) == pc' = [pc EXCEPT ![t] = l]
Emit(e) == log' = Append(log, e)
\* a callback fires on thread t. The three callbacks are installed before use,
\* as CANListener's constructor and the tests' setupCallbacks() do, so each
\* "if (m_xxxCallback)" guard of the source is taken.
Fire(kind, t) ==
    lateCb' = IF stopped
              THEN lateCb \cup {<<kind, IF t = "main" THEN op ELSE t>>}
              ELSE lateCb
\* the caller thread returns v from the function it is in
Return(v) ==
    IF stack = <<>>
    THEN /\ Goto("main", "idle") /\ ret' = v /\ stack' = stack
    ELSE /\ Goto("main", Head(stack)) /\ ret' = v /\ stack' = Tail(stack)
\* socket(): the lowest free descriptor
NewFd == CHOOSE fd \in Fds \ openFds : \A g \in Fds \ openFds : fd <= g

\* ------------------------------------------- what a call has done so far
Returned(o) == pc["main"] = "idle" /\ op = o
Count(e) == Cardinality({i \in 1..Len(log) : log[i] = e})
ErrorEvents == {"error:Failed to setup CAN socket", "error:CAN socket not connected",
                "error:Data too large", "error:Failed to send CAN message"}
Errors == Cardinality({i \in 1..Len(log) : log[i] \in ErrorEvents})
Has(e) == \E i \in 1..Len(log) : log[i] = e
SetupStepFailed == Has("socket_failed") \/ Has("ioctl_failed") \/ Has("bind_failed")
ReaderGone == pc["reader"] \in {"none", "exited"}

\* ------------------------------------------------------- the caller's calls
EnterWithin(bound, o, a, l) ==
    /\ pc["main"] = "idle"
    /\ ~aborted
    /\ opsDone < bound
    /\ op' = o /\ args' = a /\ prevOp' = op
    /\ opsDone' = opsDone + 1
    /\ pre' = Snapshot
    /\ log' = <<>> /\ ret' = "none" /\ stack' = <<>>
    /\ Goto("main", l)
    /\ lastTx' = NoFrame
    /\ UNCHANGED <<transportVars, m_socketMutex, openFds, boundFds, rxq, arrivals,
                   readerVars, aborted, stopped, lateCb>>
    /\ UNCHANGED extVars

Enter(o, a, l) == EnterWithin(MaxOps, o, a, l)

Call_connect == Enter("connect", NoArgs, "connect")
Call_disconnect == Enter("disconnect", NoArgs, "disconnect")
Call_sendMessage ==
    \E id \in CanIds, d \in Payloads :
        Enter("sendMessage", [data |-> d, canId |-> id, name |-> ""], "sendMessage")
Call_setInterfaceName ==
    \E n \in Interfaces :
        Enter("setInterfaceName", [data |-> <<>>, canId |-> 0, name |-> n],
              "setInterfaceName")

\* ------------------------------------------------- CANConnector::connect
\* (variant: the already-connected guard is missing)
connect_check_noguard ==
    /\ pc["main"] = "connect"
    /\ stopped' = FALSE
    /\ Goto("main", "setup_socket")
    /\ UNCHANGED <<ret, stack>>
    /\ UNCHANGED <<transportVars, m_socketMutex, callVars, log, kernelVars,
                   readerVars, aborted, lateCb>>
    /\ UNCHANGED extVars

\* if (m_connected) return true;
connect_check ==
    /\ pc["main"] = "connect"
    /\ stopped' = FALSE
    /\ IF m_connected
       THEN Return("true")
       ELSE /\ Goto("main", "setup_socket") /\ UNCHANGED <<ret, stack>>
    /\ UNCHANGED <<transportVars, m_socketMutex, callVars, log, kernelVars,
                   readerVars, aborted, lateCb>>
    /\ UNCHANGED extVars

\* if (!setupSocket()) { m_errorCallback("Failed to setup CAN socket..."); return false; }
SetupFailed(steps) ==
    /\ log' = log \o steps \o <<"error:Failed to setup CAN socket">>
    /\ Fire("error", "main")
    /\ Return("false")

\* m_socket = socket(PF_CAN, SOCK_RAW, CAN_RAW); if (m_socket < 0) return false;
setup_socket ==
    /\ pc["main"] = "setup_socket"
    /\ \E ok \in BOOLEAN :
        IF ok /\ Fds \ openFds # {}
        THEN /\ m_socket' = NewFd
             /\ openFds' = openFds \cup {NewFd}
             /\ rxq' = <<>>
             /\ Emit("socket")
             /\ Goto("main", "setup_ioctl")
             /\ UNCHANGED <<ret, stack, lateCb>>
        ELSE /\ m_socket' = -1
             /\ UNCHANGED <<openFds, rxq>>
             /\ SetupFailed(<<"socket_failed">>)
    /\ UNCHANGED <<m_interfaceName, m_connected, m_shouldStop, m_readThread,
                   m_socketMutex, callVars, boundFds, arrivals, lastTx, readerVars,
                   aborted, stopped>>
    /\ UNCHANGED extVars

\* (variant: the failed step returns without closing the descriptor)
CloseAndFail_leak(step) ==
    /\ UNCHANGED <<openFds, m_socket, rxq>>
    /\ SetupFailed(<<step>>)

\* a failed step of setupSocket(): close(m_socket); m_socket = -1; return false;
CloseAndFail(step) ==
    /\ openFds' = openFds \ {m_socket}
    /\ m_socket' = -1
    /\ rxq' = <<>>
    /\ SetupFailed(<<step, "close">>)

\* strcpy(m_ifr.ifr_name, ...); if (ioctl(m_socket, SIOCGIFINDEX, &m_ifr) < 0) {...}
\* The lookup fails exactly for a name that is no interface of the host (a name
\* longer than IFNAMSIZ, such as "invalid_interface", is cut by the kernel and
\* is no interface either).
setup_ioctl ==
    /\ pc["main"] = "setup_ioctl"
    /\ IF m_interfaceName \in ExistingInterfaces
       THEN /\ Goto("main", "setup_bind")
            /\ UNCHANGED <<m_socket, openFds, rxq, log, ret, stack, lateCb>>
       ELSE CloseAndFail("ioctl_failed")
    /\ UNCHANGED <<m_interfaceName, m_connected, m_shouldStop, m_readThread,
                   m_socketMutex, callVars, boundFds, arrivals, lastTx, readerVars,
                   aborted, stopped>>
    /\ UNCHANGED extVars

\* if (bind(m_socket, (struct sockaddr*)&m_addr, sizeof(m_addr)) < 0) {...} return true;
setup_bind ==
    /\ pc["main"] = "setup_bind"
    /\ \E ok \in BOOLEAN :
        IF ok
        THEN /\ boundFds' = boundFds \cup {m_socket}
             /\ Emit("bind")
             /\ Goto("main", "connect_flags")
             /\ UNCHANGED <<m_socket, openFds, rxq, ret, stack, lateCb>>
        ELSE /\ CloseAndFail("bind_failed")
             /\ UNCHANGED boundFds
    /\ UNCHANGED <<m_interfaceName, m_connected, m_shouldStop, m_readThread,
                   m_socketMutex, callVars, arrivals, lastTx, readerVars, aborted,
                   stopped>>
    /\ UNCHANGED extVars

\* (variant: the stop flag of the previous session is not cleared)
connect_flags_keepstop ==
    /\ pc["main"] = "connect_flags"
    /\ m_connected' = TRUE
    /\ Goto("main", "connect_spawn")
    /\ UNCHANGED <<m_interfaceName, m_socket, m_shouldStop, m_readThread,
                   m_socketMutex, stack, callVars, ret, log, kernelVars, readerVars,
                   aborted, stopped, lateCb>>
    /\ UNCHANGED extVars

\* m_connected = true; m_shouldStop = false;
connect_flags ==
    /\ pc["main"] = "connect_flags"
    /\ m_connected' = TRUE
    /\ m_shouldStop' = FALSE
    /\ Goto("main", "connect_spawn")
    /\ UNCHANGED <<m_interfaceName, m_socket, m_readThread, m_socketMutex, stack,
                   callVars, ret, log, kernelVars, readerVars, aborted, stopped, lateCb>>
    /\ UNCHANGED extVars

\* (variant: connect() goes on without creating the reader thread)
connect_spawn_nothread ==
    /\ pc["main"] = "connect_spawn"
    /\ Goto("main", "connect_status")
    /\ UNCHANGED <<transportVars, m_socketMutex, stack, callVars, ret, log,
                   kernelVars, readerVars, aborted, stopped, lateCb>>
    /\ UNCHANGED extVars

\* m_readThread = std::make_unique<std::thread>(&CANConnector::readThreadFunction, this);
\* assigning over a still joinable std::thread destroys it: std::terminate
connect_spawn ==
    /\ pc["main"] = "connect_spawn"
    /\ IF m_readThread = "joinable"
       THEN /\ aborted' = TRUE
            /\ UNCHANGED <<m_readThread, pc, log, readerError, readerErrorCbs>>
       ELSE /\ m_readThread' = "joinable"
            /\ pc' = [pc EXCEPT !["main"] = "connect_status", !["reader"] = "loop"]
            /\ readerError' = FALSE
            /\ readerErrorCbs' = 0
            /\ Emit("spawn")
            /\ UNCHANGED aborted
    /\ UNCHANGED <<m_interfaceName, m_socket, m_connected, m_shouldStop,
                   m_socketMutex, stack, callVars, ret, kernelVars, frame, readSeq,
                   cbSeq, stopped, lateCb>>
    /\ UNCHANGED extVars

\* if (m_statusCallback) m_statusCallback(true); return true;
connect_status ==
    /\ pc["main"] = "connect_status"
    /\ Emit("status:true")
    /\ Fire("status", "main")
    /\ Return("true")
    /\ UNCHANGED <<transportVars, m_socketMutex, callVars, kernelVars, readerVars,
                   aborted, stopped>>
    /\ UNCHANGED extVars

\* ---------------------------------------------- CANConnector::disconnect
\* (variant: the not-connected guard is missing)
disconnect_check_noguard ==
    /\ pc["main"] = "disconnect"
    /\ m_shouldStop' = TRUE
    /\ Goto("main", "disconnect_join")
    /\ UNCHANGED <<ret, stack, stopped>>
    /\ UNCHANGED <<m_interfaceName, m_socket, m_connected, m_readThread,
                   m_socketMutex, callVars, log, kernelVars, readerVars, aborted,
                   lateCb>>
    /\ UNCHANGED extVars

\* if (!m_connected) return;  m_shouldStop = true;
disconnect_check ==
    /\ pc["main"] = "disconnect"
    /\ IF ~m_connected
       THEN /\ Return("void")
            /\ stopped' = TRUE
            /\ UNCHANGED m_shouldStop
       ELSE /\ m_shouldStop' = TRUE
            /\ Goto("main", "disconnect_join")
            /\ UNCHANGED <<ret, stack, stopped>>
    /\ UNCHANGED <<m_interfaceName, m_socket, m_connected, m_readThread,
                   m_socketMutex, callVars, log, kernelVars, readerVars, aborted,
                   lateCb>>
    /\ UNCHANGED extVars

\* (variant: the reader is signalled but not joined)
disconnect_join_nowait ==
    /\ pc["main"] = "disconnect_join"
    /\ IF m_readThread = "joinable"
       THEN /\ m_readThread' = "joined"
            /\ Emit("join")
       ELSE UNCHANGED <<m_readThread, log>>
    /\ Goto("main", "disconnect_cleanup")
    /\ UNCHANGED <<m_interfaceName, m_socket, m_connected, m_shouldStop,
                   m_socketMutex, stack, callVars, ret, kernelVars, readerVars,
                   aborted, stopped, lateCb>>
    /\ UNCHANGED extVars

\* (variant: the reader thread is left running, the join is skipped)
disconnect_join_skip ==
    /\ pc["main"] = "disconnect_join"
    /\ Goto("main", "disconnect_cleanup")
    /\ UNCHANGED <<transportVars, m_socketMutex, stack, callVars, ret, log,
                   kernelVars, readerVars, aborted, stopped, lateCb>>
    /\ UNCHANGED extVars

\* if (m_readThread && m_readThread->joinable()) m_readThread->join();
disconnect_join ==
    /\ pc["main"] = "disconnect_join"
    /\ IF m_readThread = "joinable"
       THEN /\ pc["reader"] = "exited"
            /\ m_readThread' = "joined"
            /\ Emit("join")
       ELSE UNCHANGED <<m_readThread, log>>
    /\ Goto("main", "disconnect_cleanup")
    /\ UNCHANGED <<m_interfaceName, m_socket, m_connected, m_shouldStop,
                   m_socketMutex, stack, callVars, ret, kernelVars, readerVars,
                   aborted, stopped, lateCb>>
    /\ UNCHANGED extVars

\* (variant: m_socket is reset without closing the descriptor)
cleanupSocket_noclose ==
    /\ pc["main"] = "disconnect_cleanup"
    /\ IF m_socket >= 0
       THEN /\ boundFds' = boundFds \ {m_socket}
            /\ rxq' = <<>>
            /\ m_socket' = -1
            /\ Emit("close")
            /\ UNCHANGED openFds
       ELSE UNCHANGED <<openFds, boundFds, rxq, m_socket, log>>
    /\ Goto("main", "disconnect_flag")
    /\ UNCHANGED <<m_interfaceName, m_connected, m_shouldStop, m_readThread,
                   m_socketMutex, stack, callVars, ret, arrivals, lastTx,
                   readerVars, aborted, stopped, lateCb>>
    /\ UNCHANGED extVars

\* (variant: the status callback is fired from here, before the close)
cleanupSocket_statusfirst ==
    /\ pc["main"] = "disconnect_cleanup"
    /\ IF m_socket >= 0
       THEN /\ openFds' = openFds \ {m_socket}
            /\ boundFds' = boundFds \ {m_socket}
            /\ rxq' = <<>>
            /\ m_socket' = -1
            /\ log' = log \o <<"status:false", "close">>
       ELSE UNCHANGED <<openFds, boundFds, rxq, m_socket, log>>
    /\ Goto("main", "disconnect_flag")
    /\ UNCHANGED <<m_interfaceName, m_connected, m_shouldStop, m_readThread,
                   m_socketMutex, stack, callVars, ret, arrivals, lastTx,
                   readerVars, aborted, stopped, lateCb>>
    /\ UNCHANGED extVars

\* cleanupSocket(): if (m_socket >= 0) { close(m_socket); m_socket = -1; }
cleanupSocket ==
    /\ pc["main"] = "disconnect_cleanup"
    /\ IF m_socket >= 0
       THEN /\ openFds' = openFds \ {m_socket}
            /\ boundFds' = boundFds \ {m_socket}
            /\ rxq' = <<>>
            /\ m_socket' = -1
            /\ Emit("close")
       ELSE UNCHANGED <<openFds, boundFds, rxq, m_socket, log>>
    /\ Goto("main", "disconnect_flag")
    /\ UNCHANGED <<m_interfaceName, m_connected, m_shouldStop, m_readThread,
                   m_socketMutex, stack, callVars, ret, arrivals, lastTx,
                   readerVars, aborted, stopped, lateCb>>
    /\ UNCHANGED extVars

\* (variant: disconnect() leaves m_connected set)
disconnect_flag_keepconnected ==
    /\ pc["main"] = "disconnect_flag"
    /\ Goto("main", "disconnect_status")
    /\ UNCHANGED <<m_interfaceName, m_socket, m_connected, m_shouldStop, m_readThread,
                   m_socketMutex, stack, callVars, ret, log, kernelVars,
                   readerVars, aborted, stopped, lateCb>>
    /\ UNCHANGED extVars

\* m_connected = false;
disconnect_flag ==
    /\ pc["main"] = "disconnect_flag"
    /\ m_connected' = FALSE
    /\ Goto("main", "disconnect_status")
    /\ UNCHANGED <<m_interfaceName, m_socket, m_shouldStop, m_readThread,
                   m_socketMutex, stack, callVars, ret, log, kernelVars,
                   readerVars, aborted, stopped, lateCb>>
    /\ UNCHANGED extVars

\* (variant: disconnect() returns without telling the status callback)
disconnect_status_silent ==
    /\ pc["main"] = "disconnect_status"
    /\ Return("void")
    /\ stopped' = TRUE
    /\ UNCHANGED <<transportVars, m_socketMutex, callVars, log, kernelVars, readerVars,
                   aborted, lateCb>>
    /\ UNCHANGED extVars

\* if (m_statusCallback) m_statusCallback(false);  (then the function returns)
disconnect_status ==
    /\ pc["main"] = "disconnect_status"
    /\ Emit("status:false")
    /\ Fire("status", "main")
    /\ Return("void")
    /\ stopped' = TRUE
    /\ UNCHANGED <<transportVars, m_socketMutex, callVars, kernelVars, readerVars,
                   aborted>>
    /\ UNCHANGED extVars

\* --------------------------------------------- CANConnector::sendMessage
\* if (!m_connected || m_socket < 0)
NotConnected == ~m_connected \/ m_socket < 0
\* (variants: the bound is off by one, either way)
TooLarge_lax(data) == Len(data) > CAN_MAX_DLEN + 1
TooLarge_strict(data) == Len(data) >= CAN_MAX_DLEN
\* if (data.size() > CAN_MAX_DLEN)
TooLarge(data) == Len(data) > CAN_MAX_DLEN

\* (variant: the size is validated before the connection state)
sendMessage_check_sizefirst ==
    /\ pc["main"] = "sendMessage"
    /\ IF TooLarge(args.data)
       THEN /\ Emit("error:Data too large")
            /\ Fire("error", "main")
            /\ Return("false")
       ELSE IF NotConnected
       THEN /\ Emit("error:CAN socket not connected")
            /\ Fire("error", "main")
            /\ Return("false")
       ELSE /\ Goto("main", "sendMessage_lock")
            /\ UNCHANGED <<log, lateCb, ret, stack>>
    /\ UNCHANGED <<transportVars, m_socketMutex, callVars, kernelVars, readerVars,
                   aborted, stopped>>
    /\ UNCHANGED extVars

sendMessage_check ==
    /\ pc["main"] = "sendMessage"
    /\ IF NotConnected
       THEN /\ Emit("error:CAN socket not connected")
            /\ Fire("error", "main")
            /\ Return("false")
       ELSE IF TooLarge(args.data)
       THEN /\ Emit("error:Data too large")
            /\ Fire("error", "main")
            /\ Return("false")
       ELSE /\ Goto("main", "sendMessage_lock")
            /\ UNCHANGED <<log, lateCb, ret, stack>>
    /\ UNCHANGED <<transportVars, m_socketMutex, callVars, kernelVars, readerVars,
                   aborted, stopped>>
    /\ UNCHANGED extVars

\* std::lock_guard<std::mutex> lock(m_socketMutex);
sendMessage_lock ==
    /\ pc["main"] = "sendMessage_lock"
    /\ m_socketMutex = "free"
    /\ m_socketMutex' = "main"
    /\ Goto("main", "sendMessage_write")
    /\ UNCHANGED <<transportVars, stack, callVars, ret, log, kernelVars, readerVars,
                   aborted, stopped, lateCb>>
    /\ UNCHANGED extVars

\* frame.can_id = canId; frame.can_dlc = data.size(); memcpy(frame.data, ...);
\* bytesWritten = write(m_socket, &frame, sizeof(frame));
\* if (bytesWritten != sizeof(frame)) { m_errorCallback("Failed to send..."); return false; }
\* return true;   (the lock_guard releases the mutex on either return)
sendMessage_write ==
    /\ pc["main"] = "sendMessage_write"
    /\ \E ok \in BOOLEAN, g \in StackGarbage :
        IF ok /\ m_socket \in boundFds
        THEN /\ lastTx' = MakeFrame(args.canId, args.data, g)
             /\ Emit("write")
             /\ Return("true")
             /\ UNCHANGED lateCb
        ELSE /\ log' = log \o <<"write_failed", "error:Failed to send CAN message">>
             /\ Fire("error", "main")
             /\ Return("false")
             /\ UNCHANGED lastTx
    /\ m_socketMutex' = "free"
    /\ UNCHANGED <<transportVars, callVars, openFds, boundFds, rxq, arrivals,
                   readerVars, aborted, stopped>>
    /\ UNCHANGED extVars

\* ---------------------------------------- CANConnector::setInterfaceName
\* if (m_interfaceName != interfaceName) { bool wasConnected = m_connected;
\*     if (wasConnected) disconnect();
setInterfaceName_check ==
    /\ pc["main"] = "setInterfaceName"
    /\ IF m_interfaceName = args.name
       THEN Return("void")
       ELSE IF m_connected
       THEN /\ Goto("main", "disconnect")
            /\ stack' = <<"setInterfaceName_assign_reconnect">> \o stack
            /\ UNCHANGED ret
       ELSE /\ Goto("main", "setInterfaceName_assign")
            /\ UNCHANGED <<ret, stack>>
    /\ UNCHANGED <<transportVars, m_socketMutex, callVars, log, kernelVars,
                   readerVars, aborted, stopped, lateCb>>
    /\ UNCHANGED extVars

\* m_interfaceName = interfaceName;  (wasConnected is false: nothing else)
setInterfaceName_assign ==
    /\ pc["main"] = "setInterfaceName_assign"
    /\ m_interfaceName' = args.name
    /\ Return("void")
    /\ UNCHANGED <<m_socket, m_connected, m_shouldStop, m_readThread, m_socketMutex,
                   callVars, log, kernelVars, readerVars, aborted, stopped, lateCb>>
    /\ UNCHANGED extVars

\* (variant: the name is switched but connect() is not called again)
setInterfaceName_assign_noreconnect ==
    /\ pc["main"] = "setInterfaceName_assign_reconnect"
    /\ m_interfaceName' = args.name
    /\ Return("void")
    /\ UNCHANGED <<m_socket, m_connected, m_shouldStop, m_readThread, m_socketMutex,
                   callVars, log, kernelVars, readerVars, aborted, stopped, lateCb>>
    /\ UNCHANGED extVars

\* m_interfaceName = interfaceName; if (wasConnected) connect();
setInterfaceName_assign_reconnect ==
    /\ pc["main"] = "setInterfaceName_assign_reconnect"
    /\ m_interfaceName' = args.name
    /\ Goto("main", "connect")
    /\ stack' = <<"setInterfaceName_return">> \o stack
    /\ UNCHANGED <<m_socket, m_connected, m_shouldStop, m_readThread, m_socketMutex,
                   callVars, ret, log, kernelVars, readerVars, aborted, stopped,
                   lateCb>>
    /\ UNCHANGED extVars

\* connect() has returned; its result is discarded
setInterfaceName_return ==
    /\ pc["main"] = "setInterfaceName_return"
    /\ Return("void")
    /\ UNCHANGED <<transportVars, m_socketMutex, callVars, log, kernelVars,
                   readerVars, aborted, stopped, lateCb>>
    /\ UNCHANGED extVars

\* --------------------------------------- CANConnector::readThreadFunction
\* while (!m_shouldStop)
reader_loop ==
    /\ pc["reader"] = "loop"
    /\ Goto("reader", IF m_shouldStop THEN "exited" ELSE "select")
    /\ UNCHANGED <<transportVars, m_socketMutex, stack, callVars, ret, log,
                   kernelVars, readerVars, aborted, stopped, lateCb>>
    /\ UNCHANGED extVars

\* (variant: select() is given no timeout and returns only when a frame is queued)
reader_select_block ==
    /\ pc["reader"] = "select"
    /\ m_socket \in boundFds /\ rxq # <<>>
    /\ Goto("reader", "lock")
    /\ UNCHANGED <<transportVars, m_socketMutex, stack, callVars, ret, log,
                   kernelVars, readerVars, aborted, stopped, lateCb>>
    /\ UNCHANGED extVars

\* int result = select(m_socket + 1, &readfds, nullptr, nullptr, &timeout);
\*   result > 0 && FD_ISSET: a frame is queued;  result == 0: the 1 s timeout
reader_select ==
    /\ pc["reader"] = "select"
    /\ Goto("reader", IF m_socket \in boundFds /\ rxq # <<>> THEN "lock" ELSE "loop")
    /\ UNCHANGED <<transportVars, m_socketMutex, stack, callVars, ret, log,
                   kernelVars, readerVars, aborted, stopped, lateCb>>
    /\ UNCHANGED extVars

\*   result < 0: m_errorCallback("Select error: ..."); break;
reader_select_error ==
    /\ pc["reader"] = "select"
    /\ Fire("error", "reader")
    /\ readerError' = TRUE
    /\ readerErrorCbs' = readerErrorCbs + 1
    /\ Goto("reader", "exited")
    /\ UNCHANGED <<transportVars, m_socketMutex, stack, callVars, ret, log,
                   kernelVars, frame, readSeq, cbSeq, aborted, stopped>>
    /\ UNCHANGED extVars

\* std::lock_guard<std::mutex> lock(m_socketMutex);
reader_lock ==
    /\ pc["reader"] = "lock"
    /\ m_socketMutex = "free"
    /\ m_socketMutex' = "reader"
    /\ Goto("reader", "read")
    /\ UNCHANGED <<transportVars, stack, callVars, ret, log, kernelVars, readerVars,
                   aborted, stopped, lateCb>>
    /\ UNCHANGED extVars

\* ssize_t bytesRead = read(m_socket, &frame, sizeof(frame));
\*   bytesRead == sizeof(frame): decode, then the frame callback
reader_read ==
    /\ pc["reader"] = "read"
    /\ m_socket \in boundFds /\ rxq # <<>>
    /\ frame' = Head(rxq)
    /\ rxq' = Tail(rxq)
    /\ readSeq' = Append(readSeq, Head(rxq))
    /\ Goto("reader", "callback")
    /\ UNCHANGED <<transportVars, m_socketMutex, stack, callVars, ret, log, openFds,
                   boundFds, arrivals, lastTx, cbSeq, readerError, readerErrorCbs, aborted,
                   stopped,
                   lateCb>>
    /\ UNCHANGED extVars

\* (variant: the read error is reported but the loop goes on)
reader_read_error_nobreak ==
    /\ pc["reader"] = "read"
    /\ readerErrorCbs < 2
    /\ Fire("error", "reader")
    /\ readerError' = TRUE
    /\ readerErrorCbs' = readerErrorCbs + 1
    /\ m_socketMutex' = "free"
    /\ Goto("reader", "loop")
    /\ UNCHANGED <<transportVars, stack, callVars, ret, log, kernelVars, frame,
                   readSeq, cbSeq, aborted, stopped>>
    /\ UNCHANGED extVars

\*   bytesRead < 0: m_errorCallback("Error reading CAN socket: ..."); break;
reader_read_error ==
    /\ pc["reader"] = "read"
    /\ Fire("error", "reader")
    /\ readerError' = TRUE
    /\ readerErrorCbs' = readerErrorCbs + 1
    /\ m_socketMutex' = "free"
    /\ Goto("reader", "exited")
    /\ UNCHANGED <<transportVars, stack, callVars, ret, log, kernelVars, frame,
                   readSeq, cbSeq, aborted, stopped>>
    /\ UNCHANGED extVars

\* (variant: the frame callback is invoked twice for one frame)
reader_callback_twice ==
    /\ pc["reader"] = "callback"
    /\ cbSeq' = cbSeq \o << [data |-> DecodeData(frame), canId |-> frame.can_id],
                            [data |-> DecodeData(frame), canId |-> frame.can_id] >>
    /\ Fire("frame", "reader")
    /\ Goto("reader", "unlock")
    /\ UNCHANGED <<transportVars, m_socketMutex, stack, callVars, ret, log,
                   kernelVars, frame, readSeq, readerError, readerErrorCbs, aborted,
                   stopped>>
    /\ UNCHANGED extVars

\* std::vector<uint8_t> data(frame.data, frame.data + frame.can_dlc);
\* if (m_messageCallback) m_messageCallback(frame.can_id, data);
InvokeFrameCallback(next) ==
    /\ pc["reader"] = "callback"
    /\ cbSeq' = Append(cbSeq, [data |-> DecodeData(frame), canId |-> frame.can_id])
    /\ Fire("frame", "reader")
    /\ Goto("reader", next)
    /\ UNCHANGED <<transportVars, m_socketMutex, stack, callVars, ret, log,
                   kernelVars, frame, readSeq, readerError, readerErrorCbs, aborted,
                   stopped>>
    /\ UNCHANGED extVars

\* the callback the tests install returns at once
reader_callback == InvokeFrameCallback("unlock")

\* the callback has returned; the lock_guard goes out of scope
reader_unlock ==
    /\ pc["reader"] = "unlock"
    /\ m_socketMutex' = "free"
    /\ Goto("reader", "loop")
    /\ UNCHANGED <<transportVars, stack, callVars, ret, log, kernelVars, readerVars,
                   aborted, stopped, lateCb>>
    /\ UNCHANGED extVars

\* ------------------------------------------------------------ environment
\* another node's frame reaches the bound socket
BusDeliversFrom(F, max) ==
    /\ arrivals < max
    /\ m_socket \in boundFds
    /\ \E f \in F : rxq' = Append(rxq, f)
    /\ arrivals' = arrivals + 1
    /\ UNCHANGED <<transportVars, m_socketMutex, pc, stack, callVars, ret, log,
                   openFds, boundFds, lastTx, readerVars, aborted, stopped, lateCb>>
    /\ UNCHANGED extVars

BusDelivers == BusDeliversFrom(InFrames, MaxFrames)

Next ==
    \/ Call_connect \/ Call_disconnect \/ Call_sendMessage \/ Call_setInterfaceName
    \/ connect_check \/ setup_socket \/ setup_ioctl \/ setup_bind
    \/ connect_flags \/ connect_spawn \/ connect_status
    \/ disconnect_check \/ disconnect_join \/ cleanupSocket
    \/ disconnect_flag \/ disconnect_status
    \/ sendMessage_check \/ sendMessage_lock \/ sendMessage_write
    \/ setInterfaceName_check \/ setInterfaceName_assign
    \/ setInterfaceName_assign_reconnect \/ setInterfaceName_return
    \/ reader_loop \/ reader_select \/ reader_select_error
    \/ reader_lock \/ reader_read \/ reader_read_error
    \/ reader_callback \/ reader_unlock
    \/ BusDelivers

Spec == Init /\ [][Next]_vars

\* ------------------ a second thread calling CANConnector::sendMessage
\* (the D-Bus event-loop thread serving SendCANMessage, or any other caller)
senderFrame == <<m_interfaceName, m_socket, m_connected, m_shouldStop, m_readThread,
                 stack, op, args, ret, pre, log, opsDone, prevOp, kernelVars,
                 readerVars, aborted, stopped, peerVars, appVars, listenerVars>>

ConcId == CHOOSE id \in CanIds : \A other \in CanIds : id <= other
ConcPayloads == {Bytes(4), Bytes(9)}

sender_call ==
    /\ pc["sender"] = "idle"
    /\ dbusCall = "none"
    /\ ~aborted
    /\ sendsDone < MaxSends
    /\ \E d \in ConcPayloads :
          sArgs' = [data |-> d, canId |-> ConcId, name |-> ""]
    /\ sLog' = <<>> /\ sRet' = "none"
    /\ sendsDone' = sendsDone + 1
    /\ Goto("sender", "sendMessage")
    /\ UNCHANGED <<senderFrame, m_socketMutex, lateCb>>

\* where the second thread's sendMessage() returns to: the bus method handler
\* that called it, or the thread's own code
SenderDone == IF dbusCall = "SendCANMessage" THEN "SendCANMessage_return" ELSE "idle"

\* if (!m_connected || m_socket < 0) {...}  if (data.size() > CAN_MAX_DLEN) {...}
sender_check ==
    /\ pc["sender"] = "sendMessage"
    /\ IF NotConnected
       THEN /\ sLog' = Append(sLog, "error:CAN socket not connected")
            /\ Fire("error", "sender")
            /\ sRet' = "false"
            /\ Goto("sender", SenderDone)
       ELSE IF TooLarge(sArgs.data)
       THEN /\ sLog' = Append(sLog, "error:Data too large")
            /\ Fire("error", "sender")
            /\ sRet' = "false"
            /\ Goto("sender", SenderDone)
       ELSE /\ Goto("sender", "sendMessage_lock")
            /\ UNCHANGED <<sLog, sRet, lateCb>>
    /\ UNCHANGED <<senderFrame, m_socketMutex, sArgs, sendsDone>>

\* (variant: the writer does not take the socket mutex)
sender_lock_nomutex ==
    /\ pc["sender"] = "sendMessage_lock"
    /\ Goto("sender", "sendMessage_write")
    /\ UNCHANGED <<senderFrame, m_socketMutex, lateCb, senderVars>>

\* std::lock_guard<std::mutex> lock(m_socketMutex);
sender_lock ==
    /\ pc["sender"] = "sendMessage_lock"
    /\ m_socketMutex = "free"
    /\ m_socketMutex' = "sender"
    /\ Goto("sender", "sendMessage_write")
    /\ UNCHANGED <<senderFrame, lateCb, senderVars>>

\* bytesWritten = write(m_socket, &frame, sizeof(frame)); ... return
\* (write() on a descriptor that is closed or -1 fails with EBADF)
sender_write ==
    /\ pc["sender"] = "sendMessage_write"
    /\ IF m_socket \in boundFds
       THEN \E ok \in BOOLEAN :
              IF ok
              THEN /\ sLog' = Append(sLog, "write")
                   /\ sRet' = "true"
                   /\ UNCHANGED lateCb
              ELSE /\ sLog' = sLog \o <<"write_failed", "error:Failed to send CAN message">>
                   /\ Fire("error", "sender")
                   /\ sRet' = "false"
       ELSE /\ sLog' = sLog \o <<"write_badfd", "error:Failed to send CAN message">>
            /\ Fire("error", "sender")
            /\ sRet' = "false"
    /\ m_socketMutex' = IF m_socketMutex = "sender" THEN "free" ELSE m_socketMutex
    /\ Goto("sender", SenderDone)
    /\ UNCHANGED <<senderFrame, sArgs, sendsDone>>

\* the first thread's calls while the second one is active
Conc_connect == EnterWithin(MaxConcOps, "connect", NoArgs, "connect")
Conc_disconnect == EnterWithin(MaxConcOps, "disconnect", NoArgs, "disconnect")
Conc_sendMessage ==
    EnterWithin(MaxConcOps, "sendMessage",
                [data |-> Bytes(4), canId |-> ConcId, name |-> ""], "sendMessage")

NextConc ==
    \/ Conc_connect \/ Conc_disconnect \/ Conc_sendMessage
    \/ connect_check \/ setup_socket \/ setup_ioctl \/ setup_bind
    \/ connect_flags \/ connect_spawn \/ connect_status
    \/ disconnect_check \/ disconnect_join \/ cleanupSocket
    \/ disconnect_flag \/ disconnect_status
    \/ sendMessage_check \/ sendMessage_lock \/ sendMessage_write
    \/ reader_loop \/ reader_select \/ reader_select_error
    \/ reader_lock \/ reader_read \/ reader_read_error
    \/ reader_callback \/ reader_unlock
    \/ BusDelivers
    \/ sender_call \/ sender_check \/ sender_lock \/ sender_write

SpecConc == Init /\ [][NextConc]_vars

\* ------------------------------ round trip: sendMessage -> bus -> reader
\* Ids and payloads of the round trip: standard 11-bit ids including both ends
\* of the range, payloads of every length 0..8 and one with other byte values.
RtIds == {0, 291, 2047}
RtPayloads == {Bytes(n) : n \in 0..CAN_MAX_DLEN} \cup {<<255, 0, 128>>}

RT_connect == EnterWithin(MaxRtOps, "connect", NoArgs, "connect")
RT_sendMessage ==
    \E id \in RtIds, d \in RtPayloads :
        EnterWithin(MaxRtOps, "sendMessage", [data |-> d, canId |-> id, name |-> ""],
                    "sendMessage")

\* The bus hands the frame that write() accepted, all sizeof(can_frame) bytes
\* of it, to a receiving endpoint that runs readThreadFunction.
BusCarries ==
    /\ Returned("sendMessage") /\ Has("write") /\ ~Has("carried")
    /\ m_socket \in boundFds
    /\ rxq' = Append(rxq, lastTx)
    /\ carried' = Append(carried, [data |-> args.data, canId |-> args.canId])
    /\ log' = Append(log, "carried")
    /\ UNCHANGED <<transportVars, m_socketMutex, pc, stack, callVars, ret, openFds,
                   boundFds, arrivals, lastTx, readerVars, aborted, stopped, lateCb,
                   senderVars, appVars, listenerVars>>

NextRT ==
    \/ RT_connect \/ RT_sendMessage
    \/ connect_check \/ setup_socket \/ setup_ioctl \/ setup_bind
    \/ connect_flags \/ connect_spawn \/ connect_status
    \/ sendMessage_check \/ sendMessage_lock \/ sendMessage_write
    \/ reader_loop \/ reader_select \/ reader_select_error \/ reader_lock
    \/ reader_read \/ reader_read_error \/ reader_callback \/ reader_unlock
    \/ BusCarries

SpecRT == Init /\ [][NextRT]_vars

\* ------------------------------------ CANListener::forwardCANMessageToECU
\* if (canId >= 0x100 && canId <= 0x1FF) engine
\* else if (canId >= 0x200 && canId <= 0x2FF) transmission;  nothing otherwise
RouteOf(canId) ==
    IF canId >= 256 /\ canId <= 511 THEN "engine"
    ELSE IF canId >= 512 /\ canId <= 767 THEN "transmission"
    ELSE "none"

\* the routing step: logs the category; canId and data are const and go nowhere
forwardCANMessageToECU(canId, data) ==
    routed' = Append(routed, [data |-> data, canId |-> canId,
                              category |-> RouteOf(canId)])

\* the ids at both ends of every documented range, their neighbours and the
\* ids the tests use
RouteIds == {0, 255, 256, 291, 511, 512, 767, 768, 1023, 1024, 1110, 1279, 1280, 2047}
RoutePayloads == {Bytes(0), Bytes(4), Bytes(8)}

Route_frame ==
    /\ Len(routed) < MaxRouted
    /\ \E id \in RouteIds, d \in RoutePayloads : forwardCANMessageToECU(id, d)
    /\ UNCHANGED <<transportVars, m_socketMutex, pc, stack, callVars, ret, log,
                   kernelVars, readerVars, aborted, stopped, lateCb, senderVars,
                   peerVars, appVars, busVars, signals, emitted, methodVars>>

NextRoute == Route_frame

SpecRoute == Init /\ [][NextRoute]_vars

\* ================================================================ CANListener
\* The listener owns one CANConnector; its constructor installs
\* onCANMessageReceived as the frame callback. start() and stop() run on the
\* caller thread, the frame handler on the connector's reader thread, and the
\* bus methods on the bus event-loop thread (the second thread above).

\* what a bus setup or teardown step on the caller thread leaves alone
busStepFrame == <<transportVars, m_socketMutex, callVars, kernelVars, readerVars,
                  aborted, stopped, lateCb, senderVars, peerVars, appVars, handlerVars,
                  methodVars>>

\* start() is issued on a listener that holds no bus connection (fresh or stopped)
Call_start ==
    /\ m_dbusConnection = "null"
    /\ EnterWithin(MaxListenerOps, "start", NoArgs, "setupDBus_connection")
Call_stop == EnterWithin(MaxListenerOps, "stop", NoArgs, "stop")

\* (variant: a bus setup error ends start() without the CAN connect)
SetupDBusFailed_giveup(step) ==
    /\ log' = log \o <<step, "D-Bus setup error">>
    /\ Goto("main", "start_return")

\* catch (const sdbus::Error& e) { std::cerr << "D-Bus setup error: " ... }
\* after which start() goes on to connect()
SetupDBusFailed(step) ==
    /\ log' = log \o <<step, "D-Bus setup error">>
    /\ Goto("main", "start_connect")

\* m_dbusConnection = sdbus::createSessionBusConnection();
setupDBus_connection ==
    /\ pc["main"] = "setupDBus_connection"
    /\ \E ok \in BOOLEAN :
        IF ok
        THEN /\ m_dbusConnection' = "open"
             /\ Emit("bus_connection")
             /\ Goto("main", "setupDBus_requestName")
        ELSE /\ SetupDBusFailed("bus_connection_failed")
             /\ UNCHANGED m_dbusConnection
    /\ UNCHANGED <<busStepFrame, stack, ret, m_dbusObject, m_dbusThread, dbusLoop,
                   busName>>

\* m_dbusConnection->requestName(SERVICE_NAME);
setupDBus_requestName ==
    /\ pc["main"] = "setupDBus_requestName"
    /\ \E ok \in BOOLEAN :
        IF ok
        THEN /\ busName' = TRUE
             /\ Emit("bus_name")
             /\ Goto("main", "setupDBus_createObject")
        ELSE /\ SetupDBusFailed("bus_name_failed")
             /\ UNCHANGED busName
    /\ UNCHANGED <<busStepFrame, stack, ret, m_dbusConnection, m_dbusObject,
                   m_dbusThread, dbusLoop>>

\* m_dbusObject = sdbus::createObject(*m_dbusConnection, OBJECT_PATH);
setupDBus_createObject ==
    /\ pc["main"] = "setupDBus_createObject"
    /\ \E ok \in BOOLEAN :
        IF ok
        THEN /\ m_dbusObject' = "created"
             /\ Emit("bus_object")
             /\ Goto("main", "setupDBus_register")
        ELSE /\ SetupDBusFailed("bus_object_failed")
             /\ UNCHANGED m_dbusObject
    /\ UNCHANGED <<busStepFrame, stack, ret, m_dbusConnection, m_dbusThread,
                   dbusLoop, busName>>

\* registerMethod("SendCANMessage") ... registerMethod("GetStatus") ...
\* registerSignal(...) ... m_dbusObject->finishRegistration();
setupDBus_register ==
    /\ pc["main"] = "setupDBus_register"
    /\ \E ok \in BOOLEAN :
        IF ok
        THEN /\ m_dbusObject' = "registered"
             /\ Emit("bus_registered")
             /\ Goto("main", "setupDBus_thread")
        ELSE /\ SetupDBusFailed("bus_register_failed")
             /\ UNCHANGED m_dbusObject
    /\ UNCHANGED <<busStepFrame, stack, ret, m_dbusConnection, m_dbusThread,
                   dbusLoop, busName>>

\* m_dbusThread = std::make_unique<std::thread>([this]() { enterEventLoop(); });
\* (assigning over a joinable std::thread calls std::terminate)
setupDBus_thread ==
    /\ pc["main"] = "setupDBus_thread"
    /\ IF m_dbusThread = "joinable"
       THEN /\ aborted' = TRUE
            /\ UNCHANGED <<m_dbusThread, dbusLoop, pc, log>>
       ELSE /\ m_dbusThread' = "joinable"
            /\ dbusLoop' = "running"
            /\ Emit("bus_thread")
            /\ Goto("main", "start_connect")
            /\ UNCHANGED aborted
    /\ UNCHANGED <<transportVars, m_socketMutex, callVars, kernelVars, readerVars,
                   stopped, lateCb, senderVars, peerVars, appVars, handlerVars, methodVars,
                   stack, ret, m_dbusConnection, m_dbusObject, busName>>

\* if (!m_canConnector->connect()) {
start_connect ==
    /\ pc["main"] = "start_connect"
    /\ Goto("main", "connect")
    /\ stack' = <<"start_return">> \o stack
    /\ UNCHANGED <<busStepFrame, ret, log, busVars>>

\* (variant: a failed connect() makes start() take the bus object down again)
start_return_teardown ==
    /\ pc["main"] = "start_return"
    /\ Emit(IF ret = "true" THEN "started" ELSE "Failed to connect to CAN interface")
    /\ Return("void")
    /\ m_dbusObject' = IF ret = "true" THEN m_dbusObject ELSE "null"
    /\ UNCHANGED <<busStepFrame, m_dbusConnection, m_dbusThread, dbusLoop, busName>>

\*     std::cerr << "Failed to connect to CAN interface"; return; }
\* std::cout << "CAN Listener service started successfully";
start_return ==
    /\ pc["main"] = "start_return"
    /\ Emit(IF ret = "true" THEN "started" ELSE "Failed to connect to CAN interface")
    /\ Return("void")
    /\ UNCHANGED <<busStepFrame, busVars>>

\* (variant: stop() tears the bus down and leaves the CAN transport running)
stop_disconnect_skip ==
    /\ pc["main"] = "stop"
    /\ Goto("main", "stop_bus")
    /\ UNCHANGED <<busStepFrame, stack, ret, log, busVars>>

\* if (m_canConnector) { m_canConnector->disconnect(); }
stop_disconnect ==
    /\ pc["main"] = "stop"
    /\ Goto("main", "disconnect")
    /\ stack' = <<"stop_bus">> \o stack
    /\ UNCHANGED <<busStepFrame, ret, log, busVars>>

\* (variant: the bus teardown is entered whether or not a connection exists)
stop_bus_noguard ==
    /\ pc["main"] = "stop_bus"
    /\ Goto("main", "stop_leave")
    /\ UNCHANGED <<ret, stack>>
    /\ UNCHANGED <<busStepFrame, log, busVars>>

\* if (m_dbusConnection) { ... }
stop_bus ==
    /\ pc["main"] = "stop_bus"
    /\ IF m_dbusConnection = "null"
       THEN Return("void")
       ELSE /\ Goto("main", "stop_leave")
            /\ UNCHANGED <<ret, stack>>
    /\ UNCHANGED <<busStepFrame, log, busVars>>

\* try { m_dbusConnection->leaveEventLoop(); } catch (...) { warning }
stop_leave ==
    /\ pc["main"] = "stop_leave"
    /\ \E ok \in BOOLEAN :
        IF ok
        THEN /\ dbusLoop' = IF dbusLoop = "running" THEN "leaving" ELSE dbusLoop
             /\ Emit("bus_leave")
        ELSE /\ Emit("bus_leave_failed")
             /\ UNCHANGED dbusLoop
    /\ Goto("main", "stop_join")
    /\ UNCHANGED <<busStepFrame, stack, ret, m_dbusConnection, m_dbusObject,
                   m_dbusThread, busName>>

\* if (m_dbusThread && m_dbusThread->joinable()) { m_dbusThread->join(); }
stop_join ==
    /\ pc["main"] = "stop_join"
    /\ IF m_dbusThread = "joinable"
       THEN /\ dbusLoop = "exited"
            /\ m_dbusThread' = "joined"
            /\ Emit("bus_join")
       ELSE UNCHANGED <<m_dbusThread, log>>
    /\ Goto("main", "stop_release")
    /\ UNCHANGED <<busStepFrame, stack, ret, m_dbusConnection, m_dbusObject,
                   dbusLoop, busName>>

\* try { m_dbusConnection->releaseName(SERVICE_NAME); } catch (...) { warning }
stop_release ==
    /\ pc["main"] = "stop_release"
    /\ \E ok \in BOOLEAN :
        IF ok
        THEN /\ busName' = FALSE
             /\ Emit("bus_release")
        ELSE /\ Emit("bus_release_failed")
             /\ UNCHANGED busName
    /\ Goto("main", "stop_reset")
    /\ UNCHANGED <<busStepFrame, stack, ret, m_dbusConnection, m_dbusObject,
                   m_dbusThread, dbusLoop>>

\* m_dbusObject.reset(); m_dbusConnection.reset(); m_dbusThread.reset();
\* (closing the connection gives up whatever name it still owns)
stop_reset ==
    /\ pc["main"] = "stop_reset"
    /\ m_dbusObject' = "null"
    /\ m_dbusConnection' = "null"
    /\ m_dbusThread' = "null"
    /\ dbusLoop' = "none"
    /\ busName' = FALSE
    /\ Emit("bus_reset")
    /\ Return("void")
    /\ UNCHANGED busStepFrame

\* --------------------------------------- CANListener::onCANMessageReceived
\* the connector's reader invokes the frame callback the constructor installed
listener_callback == InvokeFrameCallback("onCANMessageReceived")

\* what a handler step on the reader thread leaves alone
handlerFrame == <<transportVars, m_socketMutex, stack, callVars, ret, log, kernelVars,
                  readerVars, aborted, stopped, lateCb, senderVars, peerVars, appVars, busVars,
                  methodVars>>

\* the frame the handler was called with
HandledFrame == cbSeq[Len(cbSeq)]

\* (variant: a failed emission ends the handler, the routing step is not reached)
onCANMessageReceived_emit_failreturn ==
    /\ pc["reader"] = "onCANMessageReceived"
    /\ IF m_dbusObject = "null"
       THEN /\ emitted' = Append(emitted, [outcome |-> "skipped", object |-> m_dbusObject])
            /\ Goto("reader", "forward")
            /\ UNCHANGED signals
       ELSE \E ok \in BOOLEAN :
              IF ok
              THEN /\ signals' = Append(signals, HandledFrame)
                   /\ emitted' = Append(emitted, [outcome |-> "emitted",
                                                  object |-> m_dbusObject])
                   /\ Goto("reader", "forward")
              ELSE /\ emitted' = Append(emitted, [outcome |-> "failed",
                                                  object |-> m_dbusObject])
                   /\ Goto("reader", "unlock")
                   /\ UNCHANGED signals
    /\ UNCHANGED <<handlerFrame, routed>>

\* (variant: only frames the routing table knows are published)
onCANMessageReceived_emit_routedonly ==
    /\ pc["reader"] = "onCANMessageReceived"
    /\ IF m_dbusObject = "null" \/ RouteOf(HandledFrame.canId) = "none"
       THEN /\ emitted' = Append(emitted, [outcome |-> "skipped", object |-> m_dbusObject])
            /\ UNCHANGED signals
       ELSE \E ok \in BOOLEAN :
              IF ok
              THEN /\ signals' = Append(signals, HandledFrame)
                   /\ emitted' = Append(emitted, [outcome |-> "emitted",
                                                  object |-> m_dbusObject])
              ELSE /\ emitted' = Append(emitted, [outcome |-> "failed",
                                                  object |-> m_dbusObject])
                   /\ UNCHANGED signals
    /\ Goto("reader", "forward")
    /\ UNCHANGED <<handlerFrame, routed>>

\* try { if (m_dbusObject) { signal << canId << data << timestamp;
\*                           m_dbusObject->emitSignal(signal); } }
\* catch (const sdbus::Error& e) { std::cerr << "Error emitting ..." }
onCANMessageReceived_emit ==
    /\ pc["reader"] = "onCANMessageReceived"
    /\ IF m_dbusObject = "null"
       THEN /\ emitted' = Append(emitted, [outcome |-> "skipped", object |-> m_dbusObject])
            /\ UNCHANGED signals
       ELSE \E ok \in BOOLEAN :
              IF ok
              THEN /\ signals' = Append(signals, HandledFrame)
                   /\ emitted' = Append(emitted, [outcome |-> "emitted",
                                                  object |-> m_dbusObject])
              ELSE /\ emitted' = Append(emitted, [outcome |-> "failed",
                                                  object |-> m_dbusObject])
                   /\ UNCHANGED signals
    /\ Goto("reader", "forward")
    /\ UNCHANGED <<handlerFrame, routed>>

\* forwardCANMessageToECU(canId, data);  then the handler prints and returns
onCANMessageReceived_forward ==
    /\ pc["reader"] = "forward"
    /\ forwardCANMessageToECU(HandledFrame.canId, HandledFrame.data)
    /\ Goto("reader", "unlock")
    /\ UNCHANGED <<handlerFrame, signals, emitted>>

\* frames on the listener's bus: one inside a routing range, one outside all
ListenerFrames == {MakeFrame(256, <<1, 2>>, 0),
                   MakeFrame(2047, <<170, 187, 204, 221>>, 0)}
BusDeliversToListener == BusDeliversFrom(ListenerFrames, MaxListenerFrames)

\* ------------------------------------------- the bus event-loop thread
\* what a step of the event-loop thread outside sendMessage() leaves alone
loopFrame == <<transportVars, m_socketMutex, stack, callVars, ret, log, kernelVars,
               readerVars, aborted, stopped, lateCb, peerVars, appVars, handlerVars>>

\* a SendCANMessage(canId, data) call is dispatched to its handler:
\*   [this](uint32_t canId, const std::vector<uint8_t>& data) -> bool {
\*       return m_canConnector->sendMessage(canId, data);
SendCANMessage_call ==
    /\ pc["sender"] = "idle" /\ dbusCall = "none"
    /\ dbusLoop = "running" /\ m_dbusObject = "registered"
    /\ ~aborted
    /\ sendsDone < MaxSends
    /\ \E id \in CanIds, d \in ConcPayloads :
          /\ dArgs' = [data |-> d, canId |-> id, name |-> ""]
          /\ sArgs' = [data |-> d, canId |-> id, name |-> ""]
    /\ dbusCall' = "SendCANMessage"
    /\ reply' = "none"
    /\ sLog' = <<>> /\ sRet' = "none"
    /\ sendsDone' = sendsDone + 1
    /\ Goto("sender", "sendMessage")
    /\ UNCHANGED <<loopFrame, busVars, statusLog>>

\* (variant: the handler answers true whatever sendMessage() returned)
SendCANMessage_return_true ==
    /\ pc["sender"] = "SendCANMessage_return"
    /\ reply' = "true"
    /\ dbusCall' = "none"
    /\ Goto("sender", "idle")
    /\ UNCHANGED <<loopFrame, busVars, senderVars, dArgs, statusLog>>

\*   }   the value sendMessage() returned is the method's reply
SendCANMessage_return ==
    /\ pc["sender"] = "SendCANMessage_return"
    /\ reply' = sRet
    /\ dbusCall' = "none"
    /\ Goto("sender", "idle")
    /\ UNCHANGED <<loopFrame, busVars, senderVars, dArgs, statusLog>>

\* enterEventLoop() returns after leaveEventLoop()
dbus_loop_exit ==
    /\ dbusLoop = "leaving"
    /\ pc["sender"] = "idle" /\ dbusCall = "none"
    /\ dbusLoop' = "exited"
    /\ UNCHANGED <<loopFrame, pc, senderVars, methodVars, m_dbusConnection,
                   m_dbusObject, m_dbusThread, busName>>

\* catch (const sdbus::Error& e) { std::cerr << "D-Bus event loop error: " ... }
dbus_loop_error ==
    /\ dbusLoop = "running"
    /\ pc["sender"] = "idle" /\ dbusCall = "none"
    /\ dbusLoop' = "exited"
    /\ UNCHANGED <<loopFrame, pc, senderVars, methodVars, m_dbusConnection,
                   m_dbusObject, m_dbusThread, busName>>

NextListener ==
    \/ Call_start \/ Call_stop
    \/ setupDBus_connection \/ setupDBus_requestName \/ setupDBus_createObject
    \/ setupDBus_register \/ setupDBus_thread
    \/ start_connect \/ start_return
    \/ stop_disconnect \/ stop_bus \/ stop_leave \/ stop_join \/ stop_release
    \/ stop_reset
    \/ connect_check \/ setup_socket \/ setup_ioctl \/ setup_bind
    \/ connect_flags \/ connect_spawn \/ connect_status
    \/ disconnect_check \/ disconnect_join \/ cleanupSocket
    \/ disconnect_flag \/ disconnect_status
    \/ reader_loop \/ reader_select \/ reader_select_error \/ reader_lock
    \/ reader_read \/ reader_read_error \/ reader_unlock
    \/ listener_callback \/ onCANMessageReceived_emit \/ onCANMessageReceived_forward
    \/ BusDeliversToListener
    \/ SendCANMessage_call \/ sender_check \/ sender_lock \/ sender_write
    \/ SendCANMessage_return
    \/ dbus_loop_exit \/ dbus_loop_error

\* CANListener::CANListener: m_canConnector(std::make_unique<CANConnector>("vcan0"))
InitListener == Init /\ m_interfaceName = "vcan0"

SpecListener == InitListener /\ [][NextListener]_vars

\* ------------------------------------------------------- GetStatus()
\* a GetStatus() call is dispatched to its handler
GetStatus_call ==
    /\ pc["sender"] = "idle" /\ dbusCall = "none"
    /\ dbusLoop = "running" /\ m_dbusObject = "registered"
    /\ ~aborted
    /\ Len(statusLog) < MaxStatusCalls
    /\ dbusCall' = "GetStatus"
    /\ reply' = "none"
    /\ Goto("sender", "GetStatus")
    /\ UNCHANGED <<loopFrame, busVars, senderVars, dArgs, statusLog>>

\* the text GetStatus() gives for a value of isConnected()
StatusText(connected) == IF connected THEN "Connected" ELSE "Disconnected"

\* (variant: the first answer is kept and given again)
GetStatus_return_cached ==
    /\ pc["sender"] = "GetStatus"
    /\ reply' = IF statusLog = <<>> THEN StatusText(m_connected) ELSE statusLog[1].reply
    /\ statusLog' = Append(statusLog, [reply |-> reply', connected |-> m_connected])
    /\ dbusCall' = "none"
    /\ Goto("sender", "idle")
    /\ UNCHANGED <<loopFrame, busVars, senderVars, dArgs>>

\* [this]() -> std::string {
\*     return m_canConnector->isConnected() ? "Connected" : "Disconnected"; }
GetStatus_return ==
    /\ pc["sender"] = "GetStatus"
    /\ reply' = StatusText(m_connected)
    /\ statusLog' = Append(statusLog, [reply |-> reply', connected |-> m_connected])
    /\ dbusCall' = "none"
    /\ Goto("sender", "idle")
    /\ UNCHANGED <<loopFrame, busVars, senderVars, dArgs>>

\* the listener's lifecycle with GetStatus() calls and no CAN traffic
Lifecycle_start ==
    /\ m_dbusConnection = "null"
    /\ EnterWithin(MaxLifecycleOps, "start", NoArgs, "setupDBus_connection")
Lifecycle_stop == EnterWithin(MaxLifecycleOps, "stop", NoArgs, "stop")

NextStatus ==
    \/ Lifecycle_start \/ Lifecycle_stop
    \/ setupDBus_connection \/ setupDBus_requestName \/ setupDBus_createObject
    \/ setupDBus_register \/ setupDBus_thread
    \/ start_connect \/ start_return
    \/ stop_disconnect \/ stop_bus \/ stop_leave \/ stop_join \/ stop_release
    \/ stop_reset
    \/ connect_check \/ setup_socket \/ setup_ioctl \/ setup_bind
    \/ connect_flags \/ connect_spawn \/ connect_status
    \/ disconnect_check \/ disconnect_join \/ cleanupSocket
    \/ disconnect_flag \/ disconnect_status
    \/ reader_loop \/ reader_select \/ reader_select_error
    \/ GetStatus_call \/ GetStatus_return
    \/ dbus_loop_exit \/ dbus_loop_error

SpecStatus == InitListener /\ [][NextStatus]_vars

\* Every thread that can take a step is scheduled eventually: the caller thread
\* inside start()/stop(), the reader (its select() returns within a second),
\* the event loop once told to leave, and a bus method being served. What the
\* environment may or may not do (further calls, errors) is left free.
CallerStep ==
    \/ setupDBus_connection \/ setupDBus_requestName \/ setupDBus_createObject
    \/ setupDBus_register \/ setupDBus_thread
    \/ start_connect \/ start_return
    \/ stop_disconnect \/ stop_bus \/ stop_leave \/ stop_join \/ stop_release
    \/ stop_reset
    \/ connect_check \/ setup_socket \/ setup_ioctl \/ setup_bind
    \/ connect_flags \/ connect_spawn \/ connect_status
    \/ disconnect_check \/ disconnect_join \/ cleanupSocket
    \/ disconnect_flag \/ disconnect_status
ReaderStep == reader_loop \/ reader_select

FairSpecStatus ==
    /\ SpecStatus
    /\ WF_vars(CallerStep)
    /\ WF_vars(ReaderStep)
    /\ WF_vars(dbus_loop_exit)
    /\ WF_vars(GetStatus_return)

\* ------------------------------------- start / stop cycles with CAN traffic
\* The listener is started and stopped repeatedly while frames arrive on vcan0;
\* no bus method is called.
NextCycle ==
    \/ Lifecycle_start \/ Lifecycle_stop
    \/ setupDBus_connection \/ setupDBus_requestName \/ setupDBus_createObject
    \/ setupDBus_register \/ setupDBus_thread
    \/ start_connect \/ start_return
    \/ stop_disconnect \/ stop_bus \/ stop_leave \/ stop_join \/ stop_release
    \/ stop_reset
    \/ connect_check \/ setup_socket \/ setup_ioctl \/ setup_bind
    \/ connect_flags \/ connect_spawn \/ connect_status
    \/ disconnect_check \/ disconnect_join \/ cleanupSocket
    \/ disconnect_flag \/ disconnect_status
    \/ reader_loop \/ reader_select \/ reader_select_error \/ reader_lock
    \/ reader_read \/ reader_read_error \/ reader_unlock
    \/ listener_callback \/ onCANMessageReceived_emit \/ onCANMessageReceived_forward
    \/ BusDeliversToListener
    \/ dbus_loop_exit \/ dbus_loop_error

SpecCycle == InitListener /\ [][NextCycle]_vars

\* ------------------------------------------------- CANListener::instance()
\* Everything outside the singleton accessor stands still in this section.
instanceFrame == <<transportVars, m_socketMutex, pc, stack, callVars, ret, log,
                   kernelVars, readerVars, aborted, stopped, lateCb, senderVars,
                   peerVars, listenerVars, linkVars>>

CallsOf(t) == Cardinality({i \in 1..Len(returned) : returned[i].thread = t})

\* a thread enters instance(); the function-local static unique_ptr is
\* initialised (empty) by the language before any thread reads it
instance_call(t) ==
    /\ ipc[t] = "idle"
    /\ CallsOf(t) < MaxInstanceCalls
    /\ ipc' = [ipc EXCEPT ![t] = "check"]
    /\ UNCHANGED <<instanceFrame, instance, constructed, destroyed, inew, returned>>

\* if (!instance)  -- a plain read, no lock and no atomic
instance_check(t) ==
    /\ ipc[t] = "check"
    /\ ipc' = [ipc EXCEPT ![t] = IF instance = 0 THEN "new" ELSE "get"]
    /\ UNCHANGED <<instanceFrame, instance, constructed, destroyed, inew, returned>>

\* new CANListener()
instance_new(t) ==
    /\ ipc[t] = "new"
    /\ constructed' = constructed + 1
    /\ inew' = [inew EXCEPT ![t] = constructed + 1]
    /\ ipc' = [ipc EXCEPT ![t] = "reset"]
    /\ UNCHANGED <<instanceFrame, instance, destroyed, returned>>

\* instance.reset(p): stores p and deletes the object held before, if any
instance_reset(t) ==
    /\ ipc[t] = "reset"
    /\ instance' = inew[t]
    /\ destroyed' = IF instance = 0 THEN destroyed ELSE destroyed \cup {instance}
    /\ ipc' = [ipc EXCEPT ![t] = "get"]
    /\ UNCHANGED <<instanceFrame, constructed, inew, returned>>

\* return instance.get();
instance_get(t) ==
    /\ ipc[t] = "get"
    /\ returned' = Append(returned, [thread |-> t, ptr |-> instance])
    /\ ipc' = [ipc EXCEPT ![t] = "idle"]
    /\ UNCHANGED <<instanceFrame, instance, constructed, destroyed, inew>>

Instance_call == \E t \in InstanceThreads : instance_call(t)
Instance_check == \E t \in InstanceThreads : instance_check(t)
Instance_new == \E t \in InstanceThreads : instance_new(t)
Instance_reset == \E t \in InstanceThreads : instance_reset(t)
Instance_get == \E t \in InstanceThreads : instance_get(t)

NextInstance ==
    \/ Instance_call \/ Instance_check \/ Instance_new \/ Instance_reset
    \/ Instance_get

SpecInstance == InitListener /\ [][NextInstance]_vars

\* ------------------------------------------------------ AppServerLink
\* The server link as spec.md 4.3 describes it: a connect/retry loop, a frame
\* observer that writes one JSON message per frame, and an inbound read loop.
\* Time is counted in seconds by Tick; a connect attempt and a read take no
\* time, and time does not pass while an attempt is due or under way.
linkFrameVars == <<transportVars, m_socketMutex, pc, stack, callVars, ret, log,
                   kernelVars, readerVars, aborted, stopped, lateCb, senderVars,
                   peerVars, listenerVars, instanceVars>>

DigitChars == <<"0", "1", "2", "3", "4", "5", "6", "7", "8", "9">>
HexChars == DigitChars \o <<"A", "B", "C", "D", "E", "F">>

\* "canId": <uint32> is written as a decimal number
RECURSIVE ToDecimal(_)
ToDecimal(n) ==
    IF n < 10 THEN <<DigitChars[n + 1]>>
    ELSE Append(ToDecimal(n \div 10), DigitChars[(n % 10) + 1])

DigitValue(c) == CHOOSE d \in 0..9 : DigitChars[d + 1] = c
\* the number a reader of the JSON text gets back from the digits
RECURSIVE FromDecimal(_)
FromDecimal(s) ==
    IF s = <<>> THEN 0
    ELSE 10 * FromDecimal(SubSeq(s, 1, Len(s) - 1)) + DigitValue(s[Len(s)])
IsDecimal(s) == s # <<>> /\ \A i \in 1..Len(s) : \E d \in 0..9 : DigitChars[d + 1] = s[i]

\* "data": "<hex string>", two characters per byte
RECURSIVE ToHex(_)
ToHex(data) ==
    IF data = <<>> THEN <<>>
    ELSE <<HexChars[(Head(data) \div 16) + 1], HexChars[(Head(data) % 16) + 1]>>
         \o ToHex(Tail(data))

\* (variant: the id is written in hexadecimal)
RECURSIVE ToHexNumber(_)
ToHexNumber(n) ==
    IF n < 16 THEN <<HexChars[n + 1]>>
    ELSE Append(ToHexNumber(n \div 16), HexChars[(n % 16) + 1])
CanMessage_hexid(id, data) ==
    [data |-> ToHex(data), canId |-> ToHexNumber(id), type |-> "can_message"]

\* OutboundServerMessage.CanMessage / StatusResponse / Heartbeat
CanMessage(id, data) == [data |-> ToHex(data), canId |-> ToDecimal(id), type |-> "can_message"]
StatusResponse == [data |-> <<>>, canId |-> <<>>, type |-> "status_response"]
Heartbeat == [data |-> <<>>, canId |-> <<>>, type |-> "heartbeat"]

\* frames the observer is handed, and what the server may send
LinkFrames == {[data |-> <<170, 187>>, canId |-> 1110],
               [data |-> <<1, 2, 3, 4>>, canId |-> 291]}
InboundTexts == {[data |-> <<>>, canId |-> 0, type |-> "status_request", parses |-> FALSE],
                 [data |-> <<>>, canId |-> 0, type |-> "status_request", parses |-> TRUE],
                 [data |-> <<>>, canId |-> 0, type |-> "reboot", parses |-> TRUE],
                 [data |-> <<85, 102>>, canId |-> 1000, type |-> "can_command", parses |-> TRUE]}

\* InboundServerMessage: what the read loop makes of a received text
Classify(m) ==
    IF ~m.parses THEN "Malformed"
    ELSE IF m.type = "status_request" THEN "StatusRequest"
    ELSE IF m.type = "can_command" THEN "CanCommand"
    ELSE "Unknown"

CountType(t) == Cardinality({i \in 1..Len(toServer) : toServer[i].type = t})

\* start(): begins the connect/retry loop and registers the frame observer
Link_start ==
    /\ ~linkStarted /\ linkOps < MaxLinkOps
    /\ linkStarted' = TRUE
    /\ linkState' = "Disconnected"
    /\ sleepLeft' = 0 /\ upFor' = 0 /\ failed' = 0
    /\ linkOps' = linkOps + 1
    /\ UNCHANGED <<linkFrameVars, serverUp, toServer, inbox, frameLog, canSends,
                   readLog, flips>>

\* stop(): the loops exit, the threads are joined, the socket is closed; idempotent
Link_stop ==
    /\ linkOps < MaxLinkOps
    /\ linkStarted' = FALSE
    /\ linkState' = "Disconnected"
    /\ sleepLeft' = 0 /\ upFor' = 0
    /\ inbox' = <<>>
    /\ linkOps' = linkOps + 1
    /\ UNCHANGED <<linkFrameVars, serverUp, failed, toServer, frameLog, canSends,
                   readLog, flips>>

\* (variant: the retry loop gives up after the first failed attempt)
Link_connect_limited ==
    /\ linkStarted /\ linkState = "Disconnected" /\ sleepLeft = 0
    /\ failed < 1
    /\ linkState' = "Connecting"
    /\ UNCHANGED <<linkFrameVars, linkStarted, serverUp, sleepLeft, upFor, failed,
                   toServer, inbox, frameLog, canSends, readLog, linkOps, flips>>

\* the retry loop opens a connection: Disconnected -> Connecting, however many
\* attempts have failed before
Link_connect ==
    /\ linkStarted /\ linkState = "Disconnected" /\ sleepLeft = 0
    /\ linkState' = "Connecting"
    /\ UNCHANGED <<linkFrameVars, linkStarted, serverUp, sleepLeft, upFor, failed,
                   toServer, inbox, frameLog, canSends, readLog, linkOps, flips>>

\* the attempt ends: Connecting -> Connected if the server accepts, else
\* Connecting -> Disconnected and the loop sleeps for the fixed delay
Link_connect_result ==
    /\ linkStarted /\ linkState = "Connecting"
    /\ IF serverUp
       THEN /\ linkState' = "Connected"
            /\ upFor' = 0
            /\ UNCHANGED <<sleepLeft, failed>>
       ELSE /\ linkState' = "Disconnected"
            /\ sleepLeft' = RetryDelay
            /\ failed' = IF failed < MaxFailed THEN failed + 1 ELSE failed
            /\ UNCHANGED upFor
    /\ UNCHANGED <<linkFrameVars, linkStarted, serverUp, toServer, inbox, frameLog,
                   canSends, readLog, linkOps, flips>>

\* the connection fails (the server closed it or went away): Connected ->
\* Disconnected, and the loop retries after the fixed delay
Link_lost ==
    /\ linkStarted /\ linkState = "Connected"
    /\ linkState' = "Disconnected"
    /\ sleepLeft' = RetryDelay
    /\ upFor' = 0
    /\ inbox' = <<>>
    /\ UNCHANGED <<linkFrameVars, linkStarted, serverUp, failed, toServer, frameLog,
                   canSends, readLog, linkOps, flips>>

\* the server starts or stops accepting connections
Server_flip ==
    /\ flips < MaxServerFlips
    /\ serverUp' = ~serverUp
    /\ upFor' = 0
    /\ flips' = flips + 1
    /\ UNCHANGED <<linkFrameVars, linkStarted, linkState, sleepLeft, failed, toServer,
                   inbox, frameLog, canSends, readLog, linkOps>>

\* one second passes: the retry sleep runs down; upFor counts the seconds the
\* server has been accepting while the started link is not Connected
Tick ==
    /\ linkStarted /\ linkState = "Disconnected"
    /\ ~ENABLED Link_connect
    /\ sleepLeft' = IF sleepLeft > 0 THEN sleepLeft - 1 ELSE 0
    /\ upFor' = IF serverUp /\ upFor <= RetryDelay THEN upFor + 1 ELSE upFor
    /\ UNCHANGED <<linkFrameVars, linkStarted, linkState, serverUp, failed, toServer,
                   inbox, frameLog, canSends, readLog, linkOps, flips>>

\* the frame observer: serializes the frame and writes it when connected,
\* silently drops it when not
Link_frame(f) ==
    /\ linkStarted /\ Len(frameLog) < MaxLinkFrames
    /\ toServer' = IF linkState = "Connected"
                   THEN Append(toServer, CanMessage(f.canId, f.data))
                   ELSE toServer
    /\ frameLog' = Append(frameLog, [data |-> f.data, canId |-> f.canId,
                                     connected |-> linkState = "Connected",
                                     accepting |-> serverUp])
    /\ UNCHANGED <<linkFrameVars, linkStarted, linkState, serverUp, sleepLeft, upFor,
                   failed, inbox, canSends, readLog, linkOps, flips>>

Link_observes == \E f \in LinkFrames : Link_frame(f)

\* Heartbeat: emitted while Connected, independent of traffic
Link_heartbeat ==
    /\ linkStarted /\ linkState = "Connected"
    /\ CountType("heartbeat") = 0
    /\ toServer' = Append(toServer, Heartbeat)
    /\ UNCHANGED <<linkFrameVars, linkStarted, linkState, serverUp, sleepLeft, upFor,
                   failed, inbox, frameLog, canSends, readLog, linkOps, flips>>

\* the server writes a message on the established connection
Server_sends ==
    /\ linkStarted /\ linkState = "Connected" /\ serverUp
    /\ Len(readLog) + Len(inbox) < MaxInbound
    /\ \E m \in InboundTexts : inbox' = Append(inbox, m)
    /\ UNCHANGED <<linkFrameVars, linkStarted, linkState, serverUp, sleepLeft, upFor,
                   failed, toServer, frameLog, canSends, readLog, linkOps, flips>>

\* (variant: a message that cannot be classified closes the connection)
Link_read_strict ==
    /\ linkStarted /\ linkState = "Connected" /\ inbox # <<>>
    /\ LET m == Head(inbox) IN
       /\ toServer' = IF Classify(m) = "StatusRequest"
                      THEN Append(toServer, StatusResponse) ELSE toServer
       /\ canSends' = IF Classify(m) = "CanCommand"
                      THEN Append(canSends, [data |-> m.data, canId |-> m.canId])
                      ELSE canSends
       /\ linkState' = IF Classify(m) \in {"Malformed", "Unknown"}
                       THEN "Disconnected" ELSE linkState
       /\ sleepLeft' = IF Classify(m) \in {"Malformed", "Unknown"}
                       THEN RetryDelay ELSE sleepLeft
       /\ readLog' = Append(readLog, [kind |-> Classify(m), sent |-> Len(toServer)])
    /\ inbox' = Tail(inbox)
    /\ UNCHANGED <<linkFrameVars, linkStarted, serverUp, upFor, failed, frameLog,
                   linkOps, flips>>

\* one iteration of the inbound loop: StatusRequest -> an immediate
\* StatusResponse write; CanCommand -> CanTransport.send(id, payload);
\* anything else is logged and ignored
Link_read ==
    /\ linkStarted /\ linkState = "Connected" /\ inbox # <<>>
    /\ LET m == Head(inbox) IN
       /\ toServer' = IF Classify(m) = "StatusRequest"
                      THEN Append(toServer, StatusResponse) ELSE toServer
       /\ canSends' = IF Classify(m) = "CanCommand"
                      THEN Append(canSends, [data |-> m.data, canId |-> m.canId])
                      ELSE canSends
       /\ readLog' = Append(readLog, [kind |-> Classify(m), sent |-> Len(toServer)])
    /\ inbox' = Tail(inbox)
    /\ UNCHANGED <<linkFrameVars, linkStarted, linkState, serverUp, sleepLeft, upFor,
                   failed, frameLog, linkOps, flips>>

\* the connection life of the link, with time
NextLink ==
    \/ Link_start \/ Link_stop
    \/ Link_connect \/ Link_connect_result \/ Link_lost
    \/ Server_flip \/ Tick

SpecLink == InitListener /\ [][NextLink]_vars

\* time passes, and the retry thread takes the step it is ready for
FairSpecLink ==
    /\ SpecLink
    /\ WF_vars(Tick) /\ WF_vars(Link_connect) /\ WF_vars(Link_connect_result)

\* the traffic over a started link; a lost connection is not followed up in time
NextLinkTraffic ==
    \/ Link_start
    \/ Link_connect \/ Link_connect_result \/ Link_lost
    \/ Server_flip
    \/ Link_observes \/ Link_heartbeat
    \/ Server_sends \/ Link_read

SpecLinkTraffic == InitListener /\ [][NextLinkTraffic]_vars

\* ----------------------------------- both bus methods over the lifecycle
\* The listener is started and stopped while bus clients call GetStatus() and
\* SendCANMessage(); no frames arrive.
NextSurface ==
    \/ Lifecycle_start \/ Lifecycle_stop
    \/ setupDBus_connection \/ setupDBus_requestName \/ setupDBus_createObject
    \/ setupDBus_register \/ setupDBus_thread
    \/ start_connect \/ start_return
    \/ stop_disconnect \/ stop_bus \/ stop_leave \/ stop_join \/ stop_release
    \/ stop_reset
    \/ connect_check \/ setup_socket \/ setup_ioctl \/ setup_bind
    \/ connect_flags \/ connect_spawn \/ connect_status
    \/ disconnect_check \/ disconnect_join \/ cleanupSocket
    \/ disconnect_flag \/ disconnect_status
    \/ reader_loop \/ reader_select \/ reader_select_error
    \/ GetStatus_call \/ GetStatus_return
    \/ SendCANMessage_call \/ sender_check \/ sender_lock \/ sender_write
    \/ SendCANMessage_return
    \/ dbus_loop_exit \/ dbus_loop_error

SpecSurface == InitListener /\ [][NextSurface]_vars

\* ------------------------------------- connect / disconnect under traffic
\* One caller connects and disconnects while the bus keeps delivering frames;
\* the scheduler is fair to both threads.
Stop_connect == EnterWithin(MaxStopOps, "connect", NoArgs, "connect")
Stop_disconnect == EnterWithin(MaxStopOps, "disconnect", NoArgs, "disconnect")

NextStop ==
    \/ Stop_connect \/ Stop_disconnect
    \/ connect_check \/ setup_socket \/ setup_ioctl \/ setup_bind
    \/ connect_flags \/ connect_spawn \/ connect_status
    \/ disconnect_check \/ disconnect_join \/ cleanupSocket
    \/ disconnect_flag \/ disconnect_status
    \/ reader_loop \/ reader_select \/ reader_select_error
    \/ reader_lock \/ reader_read \/ reader_read_error
    \/ reader_callback \/ reader_unlock
    \/ BusDelivers

SpecStop == Init /\ [][NextStop]_vars

\* the steps of connect() and disconnect() on the caller thread
ConnectorStep ==
    \/ connect_check \/ setup_socket \/ setup_ioctl \/ setup_bind
    \/ connect_flags \/ connect_spawn \/ connect_status
    \/ disconnect_check \/ disconnect_join \/ cleanupSocket
    \/ disconnect_flag \/ disconnect_status
\* the steps of the reader loop that need no failure of a system call; the
\* frame callback the tests install returns
ReaderRuns ==
    \/ reader_loop \/ reader_select \/ reader_lock \/ reader_read
    \/ reader_callback \/ reader_unlock

\* both threads are scheduled as long as they can take a step
FairSpecStop == SpecStop /\ WF_vars(ConnectorStep) /\ WF_vars(ReaderRuns)

\* ------------------------ a frame callback that sends on the same transport
\* The frame callback installed by the application calls sendMessage() on the
\* connector that invoked it; it runs on the reader thread, inside the scope of
\* the reader's lock_guard. The call is recorded in sArgs, sLog and sRet.
echo_callback == InvokeFrameCallback("cb_sendMessage")

\* if (!m_connected || m_socket < 0) {...}  if (data.size() > CAN_MAX_DLEN) {...}
\* (either early return ends the callback; the reader goes on to its unlock)
reader_cb_check ==
    /\ pc["reader"] = "cb_sendMessage"
    /\ \E d \in ConcPayloads :
          /\ sArgs' = [data |-> d, canId |-> ConcId, name |-> ""]
          /\ IF NotConnected
             THEN /\ sLog' = <<"error:CAN socket not connected">>
                  /\ Fire("error", "reader")
                  /\ sRet' = "false"
                  /\ Goto("reader", "unlock")
             ELSE IF TooLarge(d)
             THEN /\ sLog' = <<"error:Data too large">>
                  /\ Fire("error", "reader")
                  /\ sRet' = "false"
                  /\ Goto("reader", "unlock")
             ELSE /\ sLog' = <<>> /\ sRet' = "none"
                  /\ Goto("reader", "cb_lock")
                  /\ UNCHANGED lateCb
    /\ sendsDone' = sendsDone + 1
    /\ UNCHANGED <<senderFrame, m_socketMutex>>

\* std::lock_guard<std::mutex> lock(m_socketMutex);  on the thread that already
\* owns the std::mutex: undefined behaviour. The lock either never returns
\* (the thread waits for itself: no step) or fails with
\* resource_deadlock_would_occur, which nothing catches: std::terminate.
reader_cb_lock ==
    /\ pc["reader"] = "cb_lock"
    /\ m_socketMutex = "reader"
    /\ ~aborted
    /\ aborted' = TRUE
    /\ UNCHANGED <<transportVars, m_socketMutex, pc, stack, callVars, ret, log,
                   kernelVars, readerVars, stopped, lateCb>>
    /\ UNCHANGED extVars

NextEcho ==
    \/ Stop_connect \/ Stop_disconnect
    \/ connect_check \/ setup_socket \/ setup_ioctl \/ setup_bind
    \/ connect_flags \/ connect_spawn \/ connect_status
    \/ disconnect_check \/ disconnect_join \/ cleanupSocket
    \/ disconnect_flag \/ disconnect_status
    \/ reader_loop \/ reader_select \/ reader_select_error
    \/ reader_lock \/ reader_read \/ reader_read_error
    \/ echo_callback \/ reader_cb_check \/ reader_cb_lock \/ reader_unlock
    \/ BusDelivers

SpecEcho == Init /\ [][NextEcho]_vars

\* the reader's steps that need no failure; nothing obliges a lock() on an
\* owned mutex to fail rather than wait
EchoReaderRuns ==
    \/ reader_loop \/ reader_select \/ reader_lock \/ reader_read
    \/ echo_callback \/ reader_cb_check \/ reader_unlock

FairSpecEcho == SpecEcho /\ WF_vars(ConnectorStep) /\ WF_vars(EchoReaderRuns)

\* ------------------------------------------- start() without a stop() before
\* start() and stop() in any order: start() may be called on a listener that
\* is already started. No frames arrive and no bus method is called.
Restart_start == EnterWithin(MaxRestartOps, "start", NoArgs, "setupDBus_connection")
Restart_stop == EnterWithin(MaxRestartOps, "stop", NoArgs, "stop")

\* The second start() has assigned a new connection to m_dbusConnection, which
\* destroys the one the event-loop thread of the first start() is still
\* polling in enterEventLoop(): undefined behaviour. The thread may go on
\* (no step), may leave the loop with an error (dbus_loop_error), or may
\* bring the process down, which is this step.
dbus_loop_dangling ==
    /\ op = "start" /\ Has("bus_connection") /\ ~Has("bus_thread")
    /\ m_dbusThread = "joinable" /\ dbusLoop = "running"
    /\ ~aborted
    /\ aborted' = TRUE
    /\ UNCHANGED <<transportVars, m_socketMutex, pc, stack, callVars, ret, log,
                   kernelVars, readerVars, stopped, lateCb>>
    /\ UNCHANGED extVars

NextRestart ==
    \/ Restart_start \/ Restart_stop
    \/ setupDBus_connection \/ setupDBus_requestName \/ setupDBus_createObject
    \/ setupDBus_register \/ setupDBus_thread
    \/ start_connect \/ start_return
    \/ stop_disconnect \/ stop_bus \/ stop_leave \/ stop_join \/ stop_release
    \/ stop_reset
    \/ connect_check \/ setup_socket \/ setup_ioctl \/ setup_bind
    \/ connect_flags \/ connect_spawn \/ connect_status
    \/ disconnect_check \/ disconnect_join \/ cleanupSocket
    \/ disconnect_flag \/ disconnect_status
    \/ reader_loop \/ reader_select \/ reader_select_error
    \/ dbus_loop_exit \/ dbus_loop_error \/ dbus_loop_dangling

SpecRestart == InitListener /\ [][NextRestart]_vars

\* =================================================================== claims

\* C1: connect() on an already connected transport returns true at once and
\* has no effect of its own: no socket is created, no thread is spawned, no
\* callback fires, and socket, descriptor table and thread handle are as before.
C1_ConnectIdempotent ==
    (op = "connect" /\ pre.connected) =>
        /\ log = <<>>
        /\ pc["main"] \in {"idle", "connect"}
        /\ m_socket = pre.socket /\ openFds = pre.openFds
        /\ m_readThread = pre.readThread /\ m_connected
        /\ pc["main"] = "idle" => ret = "true"
C1_Witness ==
    Returned("connect") /\ pre.connected /\ prevOp = "connect" /\ ret = "true"

\* C2: when socket(), the interface lookup or bind() fails, connect() returns
\* false, the error callback has fired once, and nothing is left half set up:
\* not connected, m_socket = -1, no descriptor open, no reader thread running.
C2_FailedConnectLeavesNothing ==
    (Returned("connect") /\ SetupStepFailed) =>
        /\ ret = "false"
        /\ Count("error:Failed to setup CAN socket") = 1 /\ Errors = 1
        /\ ~m_connected
        /\ m_socket = -1 /\ openFds = {} /\ boundFds = {}
        /\ ReaderGone /\ m_readThread # "joinable"
        /\ ~Has("spawn") /\ ~Has("status:true")
C2_Witness ==
    /\ Returned("connect") /\ Has("bind_failed") /\ Has("close")
    /\ pre.readThread = "joined"

\* C3: a connect() from the disconnected state whose setup succeeds returns
\* true, leaves the transport connected with a reader thread spawned for it
\* (still in its loop unless it already met a read/select error), and has fired
\* status(true) exactly once and no other callback.
C3_SuccessfulConnect ==
    (Returned("connect") /\ ~pre.connected /\ ~SetupStepFailed) =>
        /\ ret = "true"
        /\ m_connected /\ m_socket \in boundFds /\ openFds = {m_socket}
        /\ Count("spawn") = 1 /\ m_readThread = "joinable"
        /\ pc["reader"] # "none"
        /\ pc["reader"] = "exited" => readerError
        /\ Count("status:true") = 1 /\ Count("status:false") = 0 /\ Errors = 0
C3_Witness ==
    /\ Returned("connect") /\ ~pre.connected /\ ret = "true"
    /\ pre.readThread = "joined" /\ pc["reader"] = "select"

\* C4: disconnect() on a connected transport joins the reader, then closes the
\* socket, then clears the connected flag, then fires status(false): the
\* callback fires only once the reader has exited and the socket is closed.
C4_DisconnectOrder ==
    /\ (Returned("disconnect") /\ pre.connected) =>
        /\ log = <<"join", "close", "status:false">>
        /\ ~m_connected /\ m_socket = -1 /\ openFds = {}
        /\ pc["reader"] = "exited" /\ m_readThread = "joined"
    /\ (pc["main"] = "disconnect_status" \/ (op = "disconnect" /\ Has("status:false"))) =>
        /\ ReaderGone /\ m_socket = -1 /\ openFds = {} /\ ~m_connected
C4_Witness ==
    /\ Returned("disconnect") /\ pre.connected
    /\ log = <<"join", "close", "status:false">> /\ ~readerError

\* C5: disconnect() on a transport that is not connected (a second disconnect
\* in a row, or one before any connect) returns at once without reaching the
\* join, fires no callback, closes nothing and leaves the state Disconnected.
C5_RedundantDisconnect ==
    (op = "disconnect" /\ ~pre.connected) =>
        /\ pc["main"] \in {"idle", "disconnect"}
        /\ log = <<>>
        /\ ~m_connected /\ m_socket = -1 /\ openFds = pre.openFds
        /\ m_readThread = pre.readThread /\ ReaderGone
        /\ pc["main"] = "idle" => ret = "void"
C5_Witness ==
    /\ Returned("disconnect") /\ prevOp = "disconnect" /\ ~pre.connected
    /\ pre.readThread = "joined"

\* C6 (as stated): once disconnect() has returned, no frame, status or error
\* callback fires until the next connect() begins.
C6_NoCallbackAfterDisconnect == lateCb = {}

\* C6 (amended): once disconnect() has returned, no frame or status callback
\* fires and nothing fires on the reader thread, whatever traffic was in flight;
\* the only callback that still fires before the next connect() is the error
\* callback raised synchronously inside the caller's own sendMessage().
C6_OnlySendErrorAfterDisconnect == lateCb \subseteq {<<"error", "sendMessage">>}
C6_Witness ==
    /\ Returned("disconnect") /\ pre.connected /\ stopped
    /\ pre.readerPc = "read" /\ Len(readSeq) < arrivals

\* C7: when disconnect() returns (and already when it goes on to close the
\* socket) the reader thread has exited and been joined: it is not inside the
\* frame callback, does not hold the socket mutex, and cannot start a callback.
C7_ReaderJoinedOnReturn ==
    (\/ pc["main"] = "idle" /\ op = "disconnect"
     \/ pc["main"] \in {"disconnect_cleanup", "disconnect_flag", "disconnect_status",
                        "setInterfaceName_assign_reconnect"}) =>
        /\ ReaderGone
        /\ m_readThread # "joinable"
        /\ m_socketMutex # "reader"
C7_Witness ==
    /\ Returned("disconnect") /\ pre.connected /\ pre.readerPc = "callback"
    /\ pc["reader"] = "exited" /\ ~readerError /\ cbSeq # <<>>

\* C8: sendMessage() with more than 8 payload bytes (9, 10, ...) returns false
\* straight from validation: write() is never attempted, nothing reaches the
\* bus, and exactly one error callback fires.
C8_OversizeRejected ==
    (op = "sendMessage" /\ Len(args.data) > CAN_MAX_DLEN) =>
        /\ pc["main"] \in {"idle", "sendMessage"}
        /\ ~Has("write") /\ ~Has("write_failed") /\ lastTx = NoFrame
        /\ pc["main"] = "idle" => (ret = "false" /\ Errors = 1 /\ Len(log) = 1)
C8_Witness ==
    /\ Returned("sendMessage") /\ Len(args.data) = CAN_MAX_DLEN + 1 /\ pre.connected
    /\ log = <<"error:Data too large">> /\ ret = "false"

\* C9 (as stated): sendMessage() with at most 8 payload bytes on a connected
\* transport always returns true and fires no error callback.
C9_SendAlwaysSucceeds ==
    (Returned("sendMessage") /\ Len(args.data) <= CAN_MAX_DLEN /\ pre.connected) =>
        (ret = "true" /\ Errors = 0)

\* C9 (amended): on a connected transport a payload of at most 8 bytes (8
\* included) always passes validation and is handed to exactly one write();
\* the call returns true with no error callback when that write takes the
\* whole frame (which then carries the id and payload given), and returns
\* false with the one error "Failed to send CAN message" when the write fails.
C9_SendResultFollowsWrite ==
    (Returned("sendMessage") /\ Len(args.data) <= CAN_MAX_DLEN /\ pre.connected) =>
        \/ /\ ret = "true" /\ log = <<"write">>
           /\ lastTx.can_id = args.canId /\ lastTx.can_dlc = Len(args.data)
           /\ DecodeData(lastTx) = args.data
        \/ /\ ret = "false"
           /\ log = <<"write_failed", "error:Failed to send CAN message">>
           /\ lastTx = NoFrame
C9_Witness ==
    /\ Returned("sendMessage") /\ Len(args.data) = CAN_MAX_DLEN /\ pre.connected
    /\ ret = "true" /\ lastTx.can_dlc = CAN_MAX_DLEN

\* C10: sendMessage() on a transport that is not connected returns false
\* without attempting a write, and fires exactly one error callback, the
\* "CAN socket not connected" one - also when the payload is oversized too,
\* so the message differs from the "Data too large" one.
C10_SendWhenDisconnected ==
    (op = "sendMessage" /\ ~pre.connected) =>
        /\ pc["main"] \in {"idle", "sendMessage"}
        /\ ~Has("write") /\ ~Has("write_failed") /\ lastTx = NoFrame
        /\ ~Has("error:Data too large")
        /\ pc["main"] = "idle" =>
              (ret = "false" /\ log = <<"error:CAN socket not connected">>)
C10_Witness ==
    /\ Returned("sendMessage") /\ ~pre.connected /\ Len(args.data) > CAN_MAX_DLEN
    /\ log = <<"error:CAN socket not connected">> /\ ret = "false"

\* C11: thread t is inside write() or read() on the CAN socket
InSocketIo(t) ==
    \/ t = "main" /\ pc["main"] = "sendMessage_write"
    \/ t = "sender" /\ pc["sender"] = "sendMessage_write"
    \/ t = "reader" /\ pc["reader"] = "read"
\* C11: with two threads calling sendMessage() and the reader running, at most
\* one thread at a time is inside write() or read() on the CAN socket, and that
\* thread is the one holding m_socketMutex.
C11_SocketIoSerialized ==
    /\ Cardinality({t \in {"reader", "main", "sender"} : InSocketIo(t)}) <= 1
    /\ \A t \in {"reader", "main", "sender"} : InSocketIo(t) => m_socketMutex = t
C11_Witness ==
    /\ pc["sender"] = "sendMessage_write" /\ m_socketMutex = "sender"
    /\ pc["main"] = "sendMessage_lock" /\ pc["reader"] = "lock"

\* C12 (as stated): setInterfaceName(name) leaves interfaceName() = name; on a
\* connected transport isConnected() is true afterwards; on a disconnected
\* transport nothing but the name changes.
C12_RenameKeepsConnection ==
    Returned("setInterfaceName") =>
        /\ m_interfaceName = args.name
        /\ pre.connected => m_connected
        /\ ~pre.connected => (log = <<>> /\ ~m_connected)
\* C12 (amended): setInterfaceName(name) leaves interfaceName() = name. On a
\* disconnected transport, or with the name the transport already has, nothing
\* else happens. On a connected transport with a different name it disconnects
\* (status false, reader joined, socket closed), switches the name and calls
\* connect(), whose result it discards: isConnected() is true afterwards exactly
\* when that socket setup succeeded; when it failed the error callback has fired
\* and the transport is left disconnected with no socket.
C12_RenameReconnectsIfSetupSucceeds ==
    Returned("setInterfaceName") =>
        /\ m_interfaceName = args.name
        /\ ret = "void"
        /\ (~pre.connected \/ args.name = pre.interfaceName) =>
              /\ log = <<>>
              /\ m_connected = pre.connected
              /\ m_socket = pre.socket /\ openFds = pre.openFds
              /\ m_readThread = pre.readThread
        /\ (pre.connected /\ args.name # pre.interfaceName) =>
              /\ Has("status:false") /\ Has("join") /\ Has("close")
              /\ m_connected <=> ~SetupStepFailed
              /\ m_connected =>
                    /\ Has("spawn") /\ Has("status:true") /\ Errors = 0
                    /\ openFds = {m_socket} /\ m_socket \in boundFds
                    /\ m_readThread = "joinable"
              /\ ~m_connected =>
                    /\ Has("error:Failed to setup CAN socket")
                    /\ ~Has("status:true")
                    /\ openFds = {} /\ m_socket = -1
                    /\ ReaderGone
C12_Witness ==
    /\ Returned("setInterfaceName")
    /\ pre.connected /\ args.name # pre.interfaceName
    /\ m_connected /\ Has("spawn")

\* the reader left its loop through one of the two error branches
ReaderFailed == readerError /\ pc["reader"] = "exited"
\* C13: after a transport runtime error (read or select failure mid-session)
\* the reader loop has terminated, the error callback has fired, and the
\* transport is Disconnected: with no call in progress isConnected() is false.
C13_ErrorLeavesDisconnected ==
    (ReaderFailed /\ pc["main"] = "idle") => ~m_connected

\* C14: on a hard read/select error the reader fires the error callback exactly
\* once and terminates; from then on no frame callback is delivered, and a
\* socket is only ever created inside a connect() or setInterfaceName() the
\* caller invoked (the transport never reconnects on its own).
C14_ErrorOnceThenStop ==
    /\ [](readerError => (pc["reader"] = "exited" /\ readerErrorCbs = 1))
    /\ [](~readerError => readerErrorCbs = 0)
    /\ [][ReaderFailed => cbSeq' = cbSeq]_vars
    /\ [][(openFds' \ openFds # {}) =>
             /\ pc["main"] = "setup_socket"
             /\ op \in {"connect", "setInterfaceName"}]_vars
C14_Witness ==
    /\ ReaderFailed /\ readerErrorCbs = 1
    /\ pre.readerPc = "exited" /\ pre.connected
    /\ Returned("sendMessage") /\ ret = "true"
    /\ rxq # <<>> /\ Len(cbSeq) < arrivals

\* C15: frames reach the frame callback in exactly the order they were read
\* from the socket, one callback per frame read: the callbacks so far are the
\* frames read so far, in order (the last one still missing only while the
\* reader is between its read() and the callback), with the id and the first
\* can_dlc data bytes of each.
C15_FramesInReadOrder ==
    /\ Len(cbSeq) = IF pc["reader"] = "callback"
                    THEN Len(readSeq) - 1
                    ELSE Len(readSeq)
    /\ \A i \in 1..Len(cbSeq) :
          /\ i <= Len(readSeq)
          /\ cbSeq[i].canId = readSeq[i].can_id
          /\ cbSeq[i].data = SubSeq(readSeq[i].data, 1, readSeq[i].can_dlc)
C15_Witness ==
    /\ Len(cbSeq) = 2 /\ cbSeq[1] # cbSeq[2]
    /\ pc["reader"] = "unlock"

\* C16: round trip. For every id and every payload of length 0..8, the frame
\* written by sendMessage(id, payload) and carried by the bus is decoded by the
\* reader's frame callback with the identical id and the identical payload
\* (same length, same bytes), whatever the unused tail of the frame held.
C16_RoundTrip ==
    /\ Len(cbSeq) <= Len(carried)
    /\ \A i \in 1..Len(cbSeq) :
          /\ cbSeq[i].canId = carried[i].canId
          /\ Len(cbSeq[i].data) = Len(carried[i].data)
          /\ cbSeq[i].data = carried[i].data
C16_Witness ==
    /\ Len(cbSeq) = 1
    /\ cbSeq[1] = [data |-> <<255, 0, 128>>, canId |-> 2047]
    /\ carried = cbSeq
    /\ readSeq[1].data[CAN_MAX_DLEN] # 0

\* C17: reconnection. Over any number of connect()/disconnect() cycles of one
\* caller, a completed disconnect() leaves no socket and no running reader, and
\* a connect() that follows it and whose socket setup succeeds (the interface
\* is available) returns true with isConnected() true, exactly one open socket
\* (the new one) and exactly one reader thread (the new one); nothing of an
\* earlier cycle survives and the thread handle is never overwritten while
\* joinable.
C17_Reconnection ==
    /\ ~aborted
    /\ Returned("disconnect") =>
          /\ ~m_connected /\ openFds = {} /\ m_socket = -1
          /\ ReaderGone /\ m_readThread # "joinable"
    /\ (Returned("connect") /\ prevOp = "disconnect" /\ ~SetupStepFailed) =>
          /\ ret = "true" /\ m_connected
          /\ openFds = {m_socket} /\ m_socket \in boundFds
          /\ m_readThread = "joinable" /\ pc["reader"] # "none"
          /\ Count("socket") = 1 /\ Count("spawn") = 1
          /\ pre.openFds = {} /\ pre.readerPc \in {"none", "exited"}
C17_Witness ==
    /\ Returned("connect") /\ prevOp = "disconnect" /\ ret = "true"
    /\ pre.readThread = "joined" /\ pre.readerPc = "exited"
    /\ m_connected /\ openFds = {m_socket} /\ m_readThread = "joinable"

\* the category the README's table of CAN id ranges gives an id
DocumentedCategory(canId) ==
    IF canId >= 256 /\ canId <= 511 THEN "engine"
    ELSE IF canId >= 512 /\ canId <= 767 THEN "transmission"
    ELSE IF canId >= 768 /\ canId <= 1023 THEN "body"
    ELSE IF canId >= 1024 /\ canId <= 1279 THEN "safety"
    ELSE "none"
\* C19: the routing step classifies every id as the table says (0x100-0x1FF
\* engine, 0x200-0x2FF transmission, 0x300-0x3FF body, 0x400-0x4FF safety, no
\* category otherwise) and hands on id and payload unchanged.
C19_RoutingTable ==
    \A i \in 1..Len(routed) :
        routed[i].category = DocumentedCategory(routed[i].canId)

\* frames handled so far whose signal went out
EmittedIdx == {i \in 1..Len(emitted) : emitted[i].outcome = "emitted"}
\* C18 (as stated): every frame delivered while the listener's bus object is
\* registered is published as exactly one CANMessageReceived signal.
C18_OneSignalPerFrame ==
    \A i \in 1..Len(emitted) :
        emitted[i].object = "registered" => emitted[i].outcome = "emitted"
\* C18 (amended): for every frame delivered while the listener's bus object is
\* registered the listener attempts exactly one CANMessageReceived signal with
\* the frame's id and unmodified payload, whatever the id's routing category
\* (the routing table is not a filter): the signal is published once, or not at
\* all when the emission throws a bus error, which is caught and logged. The
\* signals published are exactly the frames whose emission succeeded, in
\* order, and every frame goes on to the routing step either way.
C18_OneSignalUnlessEmitFails ==
    /\ Len(emitted) <= Len(cbSeq) /\ Len(cbSeq) <= Len(emitted) + 1
    /\ Len(routed) <= Len(emitted) /\ Len(emitted) <= Len(routed) + 1
    /\ Len(signals) = Cardinality(EmittedIdx)
    /\ \A i \in EmittedIdx :
          signals[Cardinality({j \in EmittedIdx : j <= i})] = cbSeq[i]
    /\ \A i \in 1..Len(emitted) :
          emitted[i].object = "registered" => emitted[i].outcome \in {"emitted", "failed"}
    /\ \A i \in 1..Len(routed) :
          routed[i].canId = cbSeq[i].canId /\ routed[i].data = cbSeq[i].data
C18_Witness ==
    /\ Len(emitted) = 1
    /\ emitted[1] = [outcome |-> "emitted", object |-> "registered"]
    /\ signals = <<[data |-> <<170, 187, 204, 221>>, canId |-> 2047]>>
    /\ Len(routed) = 1 /\ routed[1].category = "none"

\* C20: the bus method SendCANMessage(id, payload) calls
\* CANConnector::sendMessage with the same id and payload and replies with the
\* value it returned, in every connection state: the reply is true exactly
\* when the transport's write succeeded.
C20_SendCANMessageDelegates ==
    /\ dbusCall = "SendCANMessage" =>
          (sArgs.canId = dArgs.canId /\ sArgs.data = dArgs.data)
    /\ reply # "none" =>
          /\ reply = sRet /\ reply \in {"true", "false"}
          /\ sArgs.canId = dArgs.canId /\ sArgs.data = dArgs.data
          /\ reply = "true" <=> (\E i \in 1..Len(sLog) : sLog[i] = "write")
          /\ Cardinality({i \in 1..Len(sLog) : sLog[i] \in {"write", "write_failed",
                                                            "write_badfd"}}) <= 1
C20_Witness ==
    /\ reply = "true" /\ dbusCall = "none" /\ pc["sender"] = "idle"
    /\ dArgs.canId = 1110 /\ dArgs.data = Bytes(4)
    /\ m_connected

\* C21: GetStatus() answers "Connected" exactly when isConnected() is true at
\* the moment the handler reads it and "Disconnected" otherwise; nothing is
\* cached, so each answer follows the transport's state at its own call.
C21_StatusReflectsConnection ==
    /\ \A i \in 1..Len(statusLog) :
          /\ statusLog[i].reply = "Connected" <=> statusLog[i].connected
          /\ statusLog[i].reply = "Disconnected" <=> ~statusLog[i].connected
    /\ (statusLog # <<>> /\ dbusCall = "none") => reply = statusLog[Len(statusLog)].reply
C21_Witness ==
    /\ Len(statusLog) = 2
    /\ statusLog[1].reply = "Connected" /\ statusLog[2].reply = "Disconnected"
    /\ op = "stop" /\ ~m_connected

\* nothing of the listener is left: transport disconnected, bus connection,
\* bus object and event-loop thread released
ListenerReleased ==
    /\ ~m_connected /\ m_socket = -1 /\ openFds = {}
    /\ ReaderGone /\ m_readThread # "joinable"
    /\ m_dbusConnection = "null" /\ m_dbusObject = "null" /\ m_dbusThread = "null"
    /\ dbusLoop = "none" /\ ~busName
BlockedInJoin ==
    /\ pc["main"] = "stop_join" /\ m_dbusThread = "joinable"
    /\ dbusLoop = "running" /\ Has("bus_leave_failed")
\* C23: in stop() a failure of leaving the event loop never prevents the
\* remaining steps: once it has happened, the thread join, the name release and
\* the reset follow and stop() returns. Refuted: the failure is caught and
\* logged, but the join that follows waits for an event loop that was never
\* told to leave.
C23_LeaveFailureNeverPrevents ==
    (op = "stop" /\ Has("bus_leave_failed")) ~> (Returned("stop") /\ Has("bus_reset"))

\* C24: instance() yields one process-wide instance: exactly one CANListener
\* is ever constructed, and every call, also under concurrent first access,
\* returns the same non-null pointer to a live object.
C24_SingleInstance ==
    /\ constructed <= 1
    /\ \A i \in 1..Len(returned) :
          /\ returned[i].ptr # 0
          /\ returned[i].ptr \notin destroyed
          /\ returned[i].ptr = returned[1].ptr

\* start() has returned after its bus setup failed
StartedWithoutBus == Returned("start") /\ Has("D-Bus setup error")
\* C25 (as stated): when the bus setup of start() has failed, the frames
\* received afterwards are processed without any signal being emitted.
C25_NoSignalAfterSetupFailure ==
    \A i \in 1..Len(emitted) :
        emitted[i].object # "registered" => emitted[i].outcome # "emitted"
\* C25 (amended): a bus setup failure during start() is only logged: start()
\* does not abort, goes on to the CAN connect and returns; no event loop runs,
\* so no bus method is served, and no exception escapes the frame callback.
\* Received frames are processed without a signal when the failure left no bus
\* object (connection, name or object creation failed). When the failure came
\* after the object was created (method/signal registration), the handler
\* still emits CANMessageReceived on that object.
C25_SetupFailureOnlyLogged ==
    /\ ~aborted
    /\ StartedWithoutBus =>
          /\ ret = "void"
          /\ Has("started") \/ Has("Failed to connect to CAN interface")
          /\ Has("started") => m_connected
          /\ Has("Failed to connect to CAN interface")
                => Has("error:Failed to setup CAN socket")
          /\ dbusLoop = "none" /\ m_dbusThread = "null"
          /\ m_dbusObject # "registered"
    /\ \A i \in 1..Len(emitted) :
          /\ emitted[i].object = "null" => emitted[i].outcome = "skipped"
          /\ emitted[i].object = "created" => emitted[i].outcome \in {"emitted", "failed"}
    /\ Len(routed) <= Len(emitted) /\ Len(emitted) <= Len(cbSeq)
C25_Witness ==
    /\ StartedWithoutBus /\ Has("bus_name_failed") /\ m_connected
    /\ Len(cbSeq) = 1 /\ Len(routed) = 1
    /\ emitted = <<[outcome |-> "skipped", object |-> "null"]>>
    /\ signals = <<>>

\* start() has returned with the bus surface set up and the CAN connect done
StartSucceeded == Returned("start") /\ Has("bus_thread") /\ Has("started")
\* C26: the listener can be restarted: no start() or stop() of a cycle aborts,
\* and a start() whose bus setup and CAN connect succeed - the first one or
\* one that follows a stop() - leaves the listener connected to CAN on a newly
\* bound socket with a running reader, and its bus surface registered (fresh
\* connection, name owned, object registered, event-loop thread started);
\* a frame handled while that surface is registered is published as a signal
\* carrying the frame, unless the emission fails and is logged.
C26_RestartWorks ==
    /\ ~aborted
    /\ StartSucceeded =>
          /\ m_connected /\ m_socket \in boundFds /\ m_socket \in openFds
          /\ m_readThread = "joinable" /\ ~m_shouldStop
          /\ pc["reader"] # "none"
          /\ pc["reader"] = "exited" => readerError
          /\ m_dbusConnection = "open" /\ busName
          /\ m_dbusObject = "registered"
          /\ m_dbusThread = "joinable" /\ dbusLoop \in {"exited", "running"}
    /\ (pc["reader"] = "forward" /\ emitted[Len(emitted)].object = "registered") =>
          \/ emitted[Len(emitted)].outcome = "failed"
          \/ /\ emitted[Len(emitted)].outcome = "emitted"
             /\ signals # <<>> /\ signals[Len(signals)] = HandledFrame
C26_Witness ==
    /\ StartSucceeded /\ opsDone = 3 /\ prevOp = "stop"
    /\ pc["reader"] = "forward"
    /\ Len(cbSeq) = 1 /\ Len(signals) = 1 /\ signals[1] = HandledFrame

\* stop() is inside its bus teardown
InBusTeardown ==
    op = "stop" /\ pc["main"] \in {"stop_bus", "stop_leave", "stop_join",
                                   "stop_release", "stop_reset"}
\* the reader thread is inside the listener's frame handler
InFrameHandler == pc["reader"] \in {"onCANMessageReceived", "forward"}
\* C27: stop() disconnects the CAN transport and joins its reader before it
\* touches the bus: during the bus teardown and after stop() has returned the
\* reader thread is gone, so no frame handler runs while the bus object is
\* being released or after it, no handler ever emits on a released (null)
\* object, and no CANMessageReceived signal is published once stop() has
\* returned, also when frames arrive during the call.
C27_NoSignalAfterStop ==
    /\ [](/\ (InBusTeardown \/ Returned("stop")) => (ReaderGone /\ ~InFrameHandler)
          /\ InFrameHandler => (op = "start" \/ pc["main"] \in
                                   {"disconnect", "disconnect_join", "stop"})
          /\ \A e \in lateCb : e[1] # "frame"
          /\ \A i \in 1..Len(emitted) :
                emitted[i].object = "null" => emitted[i].outcome = "skipped")
    /\ [][Returned("stop") => (signals' = signals /\ emitted' = emitted
                               /\ cbSeq' = cbSeq)]_vars
C27_Witness ==
    /\ op = "stop" /\ pc["main"] = "stop_reset" /\ Has("join") /\ Has("bus_join")
    /\ ReaderGone /\ Len(cbSeq) = 1 /\ Len(signals) = 1

\* the can_message messages written so far, and the frames seen while Connected
CanMessagesSent == SelectSeq(toServer, LAMBDA m : m.type = "can_message")
FramesWhileConnected == SelectSeq(frameLog, LAMBDA f : f.connected)
\* C28 (as stated): for every frame received while the link is started and the
\* server is accepting connections the server receives a can_message whose
\* canId is the frame id.
C28_ForwardedWhileAccepting ==
    \A i \in 1..Len(frameLog) :
        frameLog[i].accepting =>
            \E j \in 1..Len(toServer) :
                /\ toServer[j].type = "can_message"
                /\ FromDecimal(toServer[j].canId) = frameLog[i].canId
\* C28 (amended): for every frame received while the link is Connected the
\* server receives exactly one can_message, in order, whose canId is the frame
\* id written in decimal (0x123 arrives as 291) and whose data is the payload
\* in hex, two characters per byte; a frame received while the link is not
\* Connected - also when the server is already accepting but the retry loop
\* has not connected yet - produces no message.
C28_OneMessagePerConnectedFrame ==
    /\ Len(CanMessagesSent) = Len(FramesWhileConnected)
    /\ \A i \in 1..Len(CanMessagesSent) :
          /\ IsDecimal(CanMessagesSent[i].canId)
          /\ FromDecimal(CanMessagesSent[i].canId) = FramesWhileConnected[i].canId
          /\ Len(CanMessagesSent[i].data) = 2 * Len(FramesWhileConnected[i].data)
          /\ FramesWhileConnected[i].canId = 291 =>
                /\ CanMessagesSent[i].canId = <<"2", "9", "1">>
                /\ CanMessagesSent[i].data = <<"0", "1", "0", "2", "0", "3", "0", "4">>
C28_Witness ==
    /\ Len(frameLog) = 1 /\ frameLog[1].canId = 291 /\ frameLog[1].connected
    /\ Len(toServer) = 2 /\ toServer[1].type = "heartbeat"
    /\ toServer[2].type = "can_message" /\ toServer[2].canId = <<"2", "9", "1">>

\* C29: every iteration of the read loop takes the first unread message of an
\* established link; for a status_request it writes a status_response at once,
\* as the next message on the same connection; for an unknown type or a text
\* that does not parse it writes nothing and sends nothing to the CAN
\* transport; in every case the link stays Connected.
C29_StatusRequestAnswered ==
    [][Len(readLog') = Len(readLog) + 1 =>
          LET k == readLog'[Len(readLog')].kind IN
          /\ linkState = "Connected" /\ linkState' = "Connected"
          /\ inbox # <<>> /\ k = Classify(Head(inbox)) /\ inbox' = Tail(inbox)
          /\ k = "StatusRequest" => toServer' = Append(toServer, StatusResponse)
          /\ k # "StatusRequest" => toServer' = toServer
          /\ k \in {"Malformed", "Unknown"} => canSends' = canSends]_vars
C29_Witness ==
    /\ Len(readLog) = 2 /\ readLog[1].kind = "Malformed"
    /\ readLog[2].kind = "StatusRequest"
    /\ linkState = "Connected"
    /\ CountType("status_response") = 1
    /\ toServer[Len(toServer)] = StatusResponse

\* the transitions the link's state may make
LinkEdges == {<<"Disconnected", "Connecting">>, <<"Connected", "Disconnected">>,
              <<"Connecting", "Disconnected">>, <<"Connecting", "Connected">>}
\* C30: the link moves only along Disconnected -> Connecting -> Connected ->
\* Disconnected (and Connecting -> Disconnected when an attempt fails); while
\* started and Disconnected it makes its next attempt after the fixed delay,
\* however many attempts have failed; once the server accepts, a started link
\* is Connected within one retry delay, and at the latest eventually unless it
\* is stopped or the server goes away again.
C30_RetryConverges ==
    /\ [](/\ linkState \in {"Disconnected", "Connected", "Connecting"}
          /\ linkState # "Disconnected" => linkStarted
          /\ sleepLeft <= RetryDelay
          /\ upFor <= RetryDelay
          /\ (linkStarted /\ linkState = "Disconnected" /\ sleepLeft = 0)
                => ENABLED Link_connect)
    /\ [][linkState' # linkState => <<linkState, linkState'>> \in LinkEdges]_vars
    /\ (linkStarted /\ serverUp /\ linkState # "Connected")
          ~> (linkState = "Connected" \/ ~serverUp \/ ~linkStarted)
C30_Witness ==
    /\ linkStarted /\ linkState = "Connected" /\ serverUp
    /\ failed >= 2 /\ flips = 1

\* the outcomes the handler's emission step can have
EmitOutcomes == {"emitted", "failed", "skipped"}
\* C31: in the listener's frame handler the CANMessageReceived signal is
\* published (or its emission fails, or is skipped for want of a bus object)
\* before the routing step runs for that frame, and the routing step runs for
\* every frame handed to the handler, whatever the outcome of the emission: it
\* sees the frame's own id and payload.
C31_SignalThenRouting ==
    /\ [](/\ Len(routed) <= Len(emitted) /\ Len(emitted) <= Len(routed) + 1
          /\ (pc["reader"] = "forward") <=> (Len(emitted) = Len(routed) + 1)
          /\ ~InFrameHandler => Len(routed) = Len(cbSeq)
          /\ \A i \in 1..Len(emitted) : emitted[i].outcome \in EmitOutcomes
          /\ \A i \in 1..Len(routed) :
                routed[i].canId = cbSeq[i].canId /\ routed[i].data = cbSeq[i].data)
    /\ [][/\ signals' # signals =>
               (routed' = routed /\ Len(routed) = Len(cbSeq) - 1
                /\ Len(signals') = Len(signals) + 1)
          /\ routed' # routed =>
               (/\ Len(routed') = Len(routed) + 1 /\ Len(routed') = Len(emitted)
                /\ emitted' = emitted /\ signals' = signals)]_vars
C31_Witness ==
    /\ Len(cbSeq) = 1 /\ Len(emitted) = 1 /\ emitted[1].outcome = "failed"
    /\ signals = <<>>
    /\ Len(routed) = 1 /\ routed[1].canId = cbSeq[1].canId
    /\ pc["reader"] = "unlock"

\* C32: recovery from a runtime read error needs only an explicit reconnect: a
\* connect() entered after the reader loop has terminated on a read/select
\* error and returning true has spawned a reader loop, which is running (or
\* has since ended on a later error), so later frames reach the frame callback.
C32_ConnectRestartsReader ==
    (Returned("connect") /\ ret = "true" /\ pre.readerPc = "exited") =>
        /\ Has("spawn")
        /\ m_readThread = "joinable"
        /\ ~ReaderGone \/ readerError

\* the caller is inside disconnect()
InDisconnect == pc["main"] \in {"disconnect", "disconnect_join", "disconnect_cleanup",
                                "disconnect_flag", "disconnect_status"}
\* C33: disconnect() always terminates. The reader waits on the socket with a
\* bounded timeout and tests the stop flag on every iteration: once the flag
\* is set, a reader at the head of its loop leaves it, a reader that is
\* handling a frame returns to the head of the loop after that one frame, and
\* under fair scheduling the join completes and disconnect() returns, with no
\* traffic and with frames still queued, given that the frame callback returns.
C33_DisconnectTerminates ==
    /\ InDisconnect ~> ~InDisconnect
    /\ (pc["main"] = "disconnect_join") ~> (ReaderGone /\ pc["main"] # "disconnect_join")
    /\ [][/\ (pc["reader"] = "loop" /\ m_shouldStop) => pc'["reader"] \in {"exited", "loop"}
          /\ pc["reader"] = "unlock" => pc'["reader"] \in {"loop", "unlock"}
          /\ pc["main"] = "disconnect_join" => m_shouldStop]_vars
C33_Witness ==
    /\ Returned("disconnect") /\ Has("join") /\ ~readerError
    /\ arrivals = MaxFrames /\ Len(readSeq) < arrivals

\* start() is inside setupDBusInterface()
InBusSetup ==
    op = "start" /\ pc["main"] \in {"setupDBus_connection", "setupDBus_requestName",
                                    "setupDBus_createObject", "setupDBus_register",
                                    "setupDBus_thread"}
\* setupDBusInterface() has finished, with the event loop started or with an error
BusSetupFinished == Has("bus_thread") \/ Has("D-Bus setup error")
\* start() has returned after connect() failed
StartFailedConnect == Returned("start") /\ Has("Failed to connect to CAN interface")
\* C34: start() performs the bus setup first and calls CANConnector::connect()
\* only after the bus setup has finished. If connect() then fails, start()
\* returns with the bus surface left in place (connection, registered object,
\* name and event-loop thread as the setup made them) and the transport
\* disconnected, and from then on GetStatus() answers "Disconnected" and
\* SendCANMessage answers false.
C34_BusFirstThenConnect ==
    /\ [](/\ InBusSetup =>
               (/\ ~BusSetupFinished
                /\ m_socket = pre.socket /\ openFds = pre.openFds
                /\ m_connected = pre.connected /\ ~Has("socket"))
          /\ (op = "start" /\ pc["main"] \notin {"idle"} /\ ~InBusSetup) => BusSetupFinished
          /\ StartFailedConnect =>
               (/\ ~m_connected /\ m_socket = -1 /\ ReaderGone
                /\ Has("bus_thread") =>
                     (/\ m_dbusConnection = "open" /\ m_dbusObject = "registered"
                      /\ m_dbusThread = "joinable" /\ busName
                      /\ dbusLoop \in {"exited", "running"})))
    /\ [][(StartFailedConnect /\ reply' # reply) =>
              reply' \in {"none", "Disconnected", "false"}]_vars
C34_Witness ==
    /\ StartFailedConnect /\ Has("bus_thread") /\ Has("bind_failed")
    /\ dbusCall = "none" /\ reply = "false" /\ sRet = "false"
    /\ Len(statusLog) = 1 /\ statusLog[1].reply = "Disconnected"
    /\ dbusLoop = "running"

\* C35: whatever the interleaving of sendMessage() on one thread with
\* disconnect() on another, write() is never issued on a descriptor that
\* disconnect() has closed: a send that loses the race ends with the
\* "not connected" error and without a write.
C35_NoWriteAfterClose ==
    /\ \A i \in 1..Len(sLog) : sLog[i] # "write_badfd"
    /\ (pc["sender"] = "sendMessage_write" /\ m_socketMutex = "sender") =>
           m_socket \in openFds

\* C36: the transport does not deadlock when the frame callback calls
\* sendMessage() on the same transport: although the reader holds the socket
\* mutex while it invokes the callback, the call completes and the reader
\* goes on to release the mutex.
C36_CallbackSendCompletes ==
    (pc["reader"] = "cb_sendMessage") ~> (pc["reader"] = "unlock" /\ ~aborted)

\* C37: between lifecycle calls the transport state is consistent. Whenever
\* no call is in progress and isConnected() is false, the socket member is -1,
\* no descriptor is open and no reader thread is running or joinable;
\* whenever isConnected() is true, the socket member is an open, bound
\* descriptor and a reader thread has been spawned for it.
C37_StateConsistent ==
    pc["main"] = "idle" =>
        /\ ~m_connected =>
              (/\ m_socket = -1 /\ openFds = {}
               /\ ReaderGone /\ m_readThread # "joinable")
        /\ m_connected =>
              (/\ m_socket \in openFds /\ m_socket \in boundFds /\ openFds = {m_socket}
               /\ m_readThread = "joinable" /\ pc["reader"] # "none")
C37_Witness ==
    /\ Returned("setInterfaceName") /\ pre.connected /\ ~m_connected
    /\ Has("status:false") /\ Has("ioctl_failed")
    /\ m_socket = -1 /\ m_readThread = "joined"

\* the values the status callback was given during the current call, in order
StatusLog == SelectSeq(log, LAMBDA e : e \in {"status:true", "status:false"})
\* what the status callback must be given next when the last value was c
\* (or, before any callback, when the transport is in state c)
StatusAfter(c) == IF c THEN "status:false" ELSE "status:true"
\* C38: over any sequence of connect(), disconnect() and setInterfaceName()
\* calls the values given to the status callback alternate, starting with
\* true. Stated call by call: the transport starts disconnected and
\* isConnected() changes only inside a call; the callbacks of one call
\* alternate, beginning with the opposite of isConnected() at its entry
\* (true only from Disconnected, false only from Connected); and when the
\* call has returned isConnected() equals the last value given, or its value
\* at entry when no callback fired. Hence the first callback ever is true and
\* each one is the opposite of the one before, across calls as well.
C38_StatusAlternates ==
    /\ [](/\ \A i \in 1..Len(StatusLog) :
                StatusLog[i] = IF i % 2 = 1 THEN StatusAfter(pre.connected)
                               ELSE StatusAfter(~pre.connected)
          /\ pc["main"] = "idle" =>
                (m_connected = IF StatusLog = <<>> THEN pre.connected
                               ELSE StatusLog[Len(StatusLog)] = "status:true")
          /\ opsDone = 0 => (~m_connected /\ ~pre.connected))
    /\ [][/\ (pc["main"] = "idle" /\ pc'["main"] = "idle") => m_connected' = m_connected
          /\ opsDone' # opsDone => (pre'.connected = m_connected /\ log' = <<>>)
          /\ (Len(StatusLog') > Len(StatusLog) /\ opsDone' = opsDone) =>
                (/\ Len(StatusLog') = Len(StatusLog) + 1
                 /\ m_connected = (StatusLog'[Len(StatusLog')] = "status:true")
                 /\ pc["main"] \in {"connect_status", "disconnect_status"})]_vars
C38_Witness ==
    /\ Returned("setInterfaceName") /\ prevOp = "connect" /\ pre.connected
    /\ StatusLog = <<"status:false", "status:true">>
    /\ m_connected /\ m_interfaceName # pre.interfaceName

\* C39: for any sequence of start()/stop() calls, start() twice in a row
\* included, at most one bus connection and one event-loop thread exist at
\* any time: no connection is created while m_dbusConnection holds one, no
\* thread is created while m_dbusThread holds an unjoined one, and the
\* process is never terminated for overwriting a joinable thread.
C39_OneBusOneLoop ==
    /\ ~aborted
    /\ pc["main"] = "setupDBus_connection" => m_dbusConnection = "null"
    /\ pc["main"] = "setupDBus_thread" => m_dbusThread # "joinable"

====
